---------------------------- MODULE Spec2Model ----------------------------
(***************************************************************************)
(* A model of the scratch-vm interpreter (src/src/interpreter.rs): the     *)
(* Program with its trigger table, ready queue and sleeper heap, the Task  *)
(* with its bytecode interpreter, and the frame loop that schedules tasks. *)
(* Time is the monotonic clock read by Instant::now(), counted in ticks; a  *)
(* Sleep duration is a whole number of ticks.  The variable now holds the  *)
(* latest reading: a step that reads the clock advances it by the time     *)
(* that has passed since the reading before, which may be nothing.         *)
(***************************************************************************)
EXTENDS Integers, Sequences, FiniteSets, TLC

(***************************************************************************)
(* Bounds of the model.                                                    *)
(***************************************************************************)
\* the clock is not advanced past this reading
MaxTime == 2
\* tasks created over a run (Task::new calls)
MaxTasks == 3
\* add_trigger calls made while the program is built
MaxTriggers == 2
\* tasks created over a run of SpecRounds
MaxRoundTasks == 4
\* tasks created over a run of SpecCalls
MaxCallTasks == 2
\* the pools of SpecVars: global variables, targets, variables per target
NumGlobals == 2
NumTargets == 2
NumTargetVars == 2
\* the largest number a variable of SpecVars is changed to
MaxVarValue == 1

(***************************************************************************)
(* Values (interpreter/value.rs).  A string is a sequence of characters,   *)
(* a number is an integer-valued f64.                                      *)
(***************************************************************************)
Str(s) == [tag |-> "String", v |-> s]
Num(n) == [tag |-> "Number", v |-> n]
Bool(b) == [tag |-> "Boolean", v |-> b]
ReturnLocation(l) == [tag |-> "ReturnLocation", v |-> l]
ProcedureV(id) == [tag |-> "Procedure", v |-> id]

\* Value::default()
DefaultValue == Str(<<>>)

Digits == <<"0", "1", "2", "3", "4", "5", "6", "7", "8", "9">>

DigitVal(c) == CHOOSE d \in 0..9 : Digits[d + 1] = c

IsDigit(c) == \E d \in 0..9 : Digits[d + 1] = c

RECURSIVE NatToStr(_)
NatToStr(n) == IF n < 10 THEN <<Digits[n + 1]>>
               ELSE NatToStr(n \div 10) \o <<Digits[(n % 10) + 1]>>

\* f64::to_string of an integer-valued number
NumToStr(n) == IF n < 0 THEN <<"-">> \o NatToStr(-n) ELSE NatToStr(n)

RECURSIVE StrToNat(_)
StrToNat(s) == IF Len(s) = 0 THEN 0
               ELSE 10 * StrToNat(SubSeq(s, 1, Len(s) - 1)) + DigitVal(s[Len(s)])

AllDigits(s) == Len(s) > 0 /\ \A i \in 1..Len(s) : IsDigit(s[i])

\* str::parse::<f64>().unwrap_or(0.0) on the strings of the model: an optional
\* sign followed by decimal digits parses, anything else gives 0.0
ParseNumber(s) ==
    IF AllDigits(s) THEN StrToNat(s)
    ELSE IF Len(s) > 1 /\ s[1] = "-" /\ AllDigits(Tail(s)) THEN -StrToNat(Tail(s))
    ELSE IF Len(s) > 1 /\ s[1] = "+" /\ AllDigits(Tail(s)) THEN StrToNat(Tail(s))
    ELSE 0

\* the tags cast_string / cast_number / cast_boolean accept; any other tag
\* reaches unimplemented!() and panics
Castable(val) == val.tag \in {"String", "Number", "Boolean"}

cast_string(val) ==
    CASE val.tag = "String" -> val.v
      [] val.tag = "Number" -> NumToStr(val.v)
      [] val.tag = "Boolean" -> IF val.v THEN <<"t", "r", "u", "e">>
                                ELSE <<"f", "a", "l", "s", "e">>

cast_number(val) ==
    CASE val.tag = "Number" -> val.v
      [] val.tag = "String" -> ParseNumber(val.v)
      [] val.tag = "Boolean" -> IF val.v THEN 1 ELSE 0

cast_boolean(val) ==
    CASE val.tag = "Boolean" -> val.v
      [] val.tag = "String" -> val.v # <<>>
      [] val.tag = "Number" -> val.v # 0


(***************************************************************************)
(* Bytecode.  A procedure's bytecode is a sequence of 32-bit words; a word *)
(* is an opcode (interpreter/opcode.rs) or an immediate.  Offsets count    *)
(* words from 0, as Task::location does.                                   *)
(***************************************************************************)
Op(name) == [op |-> name, imm |-> 0]
Imm(n) == [op |-> "imm", imm |-> n]

\* the opcodes run_opcode implements; any other reaches todo!() and panics
Implemented ==
    {"PushConstant", "PushZero", "PushNumber", "PushUInt32", "DispatchEvent",
     "CallBuiltin", "CallProcedure", "Jump", "JumpIfTrue", "JumpIfFalse",
     "Return", "Yield", "Sleep", "SetVar", "ChangeVar", "ClearVar", "ZeroVar",
     "PushVar", "SetLocal", "PushLocal", "DecLocal", "Add", "GreaterThan"}

\* number of immediate words that follow each opcode
Arity(name) ==
    CASE name \in {"PushZero", "Return", "Yield", "Sleep", "Add", "GreaterThan"} -> 0
      [] name = "PushNumber" -> 2
      [] OTHER -> 1

RECURSIVE Pow2(_)
Pow2(n) == IF n = 0 THEN 1 ELSE 2 * Pow2(n - 1)

\* f64::from_le_bytes(bytemuck::cast([lo, hi])) for the positive integer-valued
\* doubles whose low word is 0: biased exponent in bits 20..30 of the high word,
\* the top 20 fraction bits below it
F64FromWords(lo, hi) ==
    LET e == (hi \div Pow2(20)) % Pow2(11)
        frac == hi % Pow2(20)
    IN IF e = 0 THEN 0
       ELSE IF e >= 1043 THEN (Pow2(20) + frac) * Pow2(e - 1043)
       ELSE (Pow2(20) + frac) \div Pow2(1043 - e)

\* the high word of 2.0f64.to_bits()
TwoHi == Pow2(30)

(***************************************************************************)
(* The compiler: ScratchProject::compile (ast/project.rs) with the         *)
(* lowering of codegen.rs and the block library of blocks.rs.  A HashMap   *)
(* is the sequence of its keys in the order the map instance enumerates    *)
(* them: that order is arbitrary, and it is the same every time one        *)
(* unmodified instance is enumerated.  An IndexMap or IndexSet is the      *)
(* sequence of its keys in index order.                                    *)
(***************************************************************************)
\* most blocks in a script of the projects explored
MaxScriptBlocks == 2
\* most scripts in a target of the projects explored
MaxTargetScripts == 2
\* most statements at the top of a script lowered on its own
MaxLowerBlocks == 2
\* most time slices started in a run of the compiled loops
MaxSlices == 6
\* most casts applied in a row to a value
MaxCasts == 3
\* tasks created over a run of SpecBuiltins
MaxBuiltinTasks == 4
\* register_block and register_reporter calls made on a BlockLibrary
MaxRegistrations == 3
\* parameters of the procedure a ScriptCompiler is created for
MaxParams == 2
\* slots of ScriptCompiler::locals, parameters included
MaxLocals == 5
\* procedure values the embedding program creates to register them
MaxInstances == 4

\* ast::Block; field is the value of the one field the block has (TEXT of a
\* text block, VARIABLE of a variable block), "" for a block without fields
Block(opcode, field, inputs) ==
    [opcode |-> opcode, field |-> field, inputs |-> inputs]

\* an entry of Block::inputs: the key and ast::Input::blocks
Input(key, blocks) == [key |-> key, blocks |-> blocks]

TextBlock(text) == Block("text", text, <<>>)
VarBlock(id) == Block("data_variable", id, <<>>)
SetVariableTo(id, value) ==
    Block("data_setvariableto", id, <<Input("VALUE", <<value>>)>>)
ChangeVariableBy(id, value) ==
    Block("data_changevariableby", id, <<Input("VALUE", <<value>>)>>)
Say(value) == Block("looks_say", "", <<Input("MESSAGE", <<value>>)>>)
Forever(substack) == Block("control_forever", "", <<Input("SUBSTACK", substack)>>)
Repeat(times, substack) ==
    Block("control_repeat", "",
          <<Input("TIMES", <<times>>), Input("SUBSTACK", substack)>>)
Wait(duration) == Block("control_wait", "", <<Input("DURATION", <<duration>>)>>)

\* operator_join whose inputs map enumerates STRING1 first, or STRING2 first
Join(first, second, string1_first) ==
    Block("operator_join", "",
          IF string1_first
          THEN <<Input("STRING1", <<first>>), Input("STRING2", <<second>>)>>
          ELSE <<Input("STRING2", <<second>>), Input("STRING1", <<first>>)>>)

\* the sequences that enumerate the set S, each element once
Orders(S) ==
    {s \in [1..Cardinality(S) -> S] : \A i, j \in 1..Cardinality(S) :
                                         s[i] = s[j] => i = j}

\* the ids of the variables of the stage and of a sprite
GlobalIds == {"g1", "g2"}
OwnIds == {"a", "b"}

\* ast::Variable with the id as its name; the variables of the projects
\* explored have initial values that differ from each other
Variable(id) == [id |-> id, initial_value |-> Str(<<id>>)]

\* Variable::initialize: the runtime cell starts with the initial value
initialize(var) == var.initial_value

\* the blocks of the scripts explored
Reporters ==
    {Join(TextBlock("y"), VarBlock("a"), o) : o \in BOOLEAN} \cup
    {Join(TextBlock("x"), TextBlock("y"), o) : o \in BOOLEAN}

Statements ==
    {SetVariableTo("a", TextBlock("x")),
     SetVariableTo("b", VarBlock("g1")),
     SetVariableTo("g2", VarBlock("b")),
     ChangeVariableBy("g1", TextBlock("y")),
     Say(TextBlock("y")),
     Forever(<<SetVariableTo("b", TextBlock("y"))>>),
     Forever(<<>>)} \cup
    {Say(r) : r \in Reporters}

StageStatements == {Say(TextBlock("y")), SetVariableTo("g1", TextBlock("x"))}

\* ast::Script; warp is the flag of the prototype of a ProcedureCalled start
\* condition, and no explored prototype has arguments
ScriptOn(start_condition, warp, blocks) ==
    [start_condition |-> start_condition, warp |-> warp, blocks |-> blocks]

\* ast::Script started by the green flag
Script(blocks) == ScriptOn("FlagClicked", FALSE, blocks)

\* ast::Target
Target(variables, scripts) == [variables |-> variables, scripts |-> scripts]

\* the projects explored, as sb3.rs builds them: the stage is target 0, its
\* variables are the globals and its own map is left empty; target 1 is a
\* sprite
Projects ==
    {[global_vars |-> g,
      targets |-> <<Target(<<>>, <<Script(<<s0>>)>>), Target(v, <<Script(s1)>>)>>] :
        g \in UNION {Orders(S) : S \in SUBSET GlobalIds},
        v \in UNION {Orders(S) : S \in SUBSET OwnIds},
        s0 \in StageStatements,
        s1 \in UNION {[1..n -> Statements] : n \in 1..MaxScriptBlocks}}

\* get_index_of counting the indices from 1
get_index_of_OneBased(keys, key) ==
    IF \E i \in 1..Len(keys) : keys[i] = key
    THEN CHOOSE i \in 1..Len(keys) : keys[i] = key
    ELSE -1

\* IndexSet::get_index_of / IndexMap::get_index_of: the index of key, -1 for
\* None
get_index_of(keys, key) ==
    IF \E i \in 1..Len(keys) : keys[i] = key
    THEN (CHOOSE i \in 1..Len(keys) : keys[i] = key) - 1
    ELSE -1

\* IndexSet::insert moving a key that is present to the end
IndexSetInsert_MovesToEnd(keys, key) ==
    SelectSeq(keys, LAMBDA k : k # key) \o <<key>>

\* IndexSet::insert, and IndexMap::insert on the keys: a key that is present
\* keeps its index, a new key gets the next index
IndexSetInsert(keys, key) ==
    IF get_index_of(keys, key) >= 0 THEN keys ELSE Append(keys, key)

\* IndexMap::extend, and IndexMap::from_iter on an empty map
RECURSIVE IndexMapExtend(_, _)
IndexMapExtend(keys, more) ==
    IF Len(more) = 0 THEN keys
    ELSE IndexMapExtend(IndexSetInsert(keys, Head(more)), Tail(more))

\* traverse_substack of find_text_constants; traverse_inputs is its loop over
\* block.inputs.values()
RECURSIVE traverse_substack(_, _)
RECURSIVE traverse_inputs(_, _)
traverse_substack(stack, text_constants) ==
    IF Len(stack) = 0 THEN text_constants
    ELSE LET block == Head(stack)
             found == IF block.opcode = "text"
                      THEN IndexSetInsert(text_constants, block.field)
                      ELSE text_constants
         IN traverse_substack(Tail(stack), traverse_inputs(block.inputs, found))

\* the loop over the inputs of a block skipped
traverse_inputs_Skipped(inputs, text_constants) == text_constants

traverse_inputs(inputs, text_constants) ==
    IF Len(inputs) = 0 THEN text_constants
    ELSE traverse_inputs(Tail(inputs),
                         traverse_substack(Head(inputs).blocks, text_constants))

\* the scripts of a project in the order of the loops over targets and scripts
RECURSIVE AllScripts(_)
AllScripts(tgts) ==
    IF Len(tgts) = 0 THEN <<>> ELSE Head(tgts).scripts \o AllScripts(Tail(tgts))

RECURSIVE find_in_scripts(_, _)
find_in_scripts(scripts, text_constants) ==
    IF Len(scripts) = 0 THEN text_constants
    ELSE find_in_scripts(Tail(scripts),
                         traverse_substack(Head(scripts).blocks, text_constants))

\* ScratchProject::find_text_constants
find_text_constants(project) == find_in_scripts(AllScripts(project.targets), <<>>)

\* ProjectContext::new
ProjectContext_new(variables, text_consts) ==
    [variables |-> IndexMapExtend(<<>>, variables), text_consts |-> text_consts]

\* TargetCodegenContext::new: the project's map extended with sprite_vars
TargetCodegenContext_new(project_ctx, sprite_vars) ==
    [variables |-> IndexMapExtend(project_ctx.variables, sprite_vars),
     text_consts |-> project_ctx.text_consts]

\* ScriptCompiler::new; texts lists the text primitives lowered so far, panic
\* is the message of the panic that ended the compilation, "" for none;
\* locals[i] is TRUE for Some(()), a local that was released
ScriptCompiler_new(suppress_yields, num_proc_params) ==
    [data |-> <<>>, texts |-> <<>>, panic |-> "",
     suppress_yields |-> suppress_yields,
     locals |-> [i \in 1..num_proc_params |-> FALSE]]

\* write_op / write_imm
write(c, words) == IF c.panic # "" THEN c ELSE [c EXCEPT !.data = @ \o words]

panic_with(c, message) == IF c.panic # "" THEN c ELSE [c EXCEPT !.panic = message]

\* build_yield writing the Yield in warp mode too
build_yield_Always(c) == write(c, <<Op("Yield")>>)

\* build_yield
build_yield(c) == IF c.suppress_yields THEN c ELSE write(c, <<Op("Yield")>>)

\* claim_local: the first released local, else a new one; claimed(c) is its
\* index
claimed(c) ==
    IF \E i \in 1..Len(c.locals) : c.locals[i]
    THEN (CHOOSE i \in 1..Len(c.locals) :
            c.locals[i] /\ \A k \in 1..(i - 1) : ~c.locals[k]) - 1
    ELSE Len(c.locals)

\* claim_local handing out a released local without taking it
claim_local_LeavesReleased(c) ==
    IF c.panic # "" THEN c
    ELSE IF claimed(c) < Len(c.locals)
    THEN c
    ELSE [c EXCEPT !.locals = Append(@, FALSE)]

\* the scan of claim_local takes every released local it passes, so the one
\* it returns is the first
claim_local(c) ==
    IF c.panic # "" THEN c
    ELSE IF claimed(c) < Len(c.locals)
    THEN [c EXCEPT !.locals[claimed(c) + 1] = FALSE]
    ELSE [c EXCEPT !.locals = Append(@, FALSE)]

\* release_local
release_local(c, handle) ==
    IF c.panic # "" THEN c ELSE [c EXCEPT !.locals[handle + 1] = TRUE]

\* the word PlaceholderLabel::write leaves for finalize_here to patch:
\* u32::MAX, all 32 bits set, written here as the two's complement reading
Unpatched == -1

\* finalize_here leaving its usages as they are
commit_placeholder_NoPatch(c, usage) == c

\* finalize_here patching the usage with the offset after the next word
commit_placeholder_OnePast(c, usage) ==
    IF c.panic # "" THEN c ELSE [c EXCEPT !.data[usage + 1] = Imm(Len(c.data) + 1)]

\* PlaceholderLabel::finalize_here for the one usage a loop end has
commit_placeholder(c, usage) ==
    IF c.panic # "" THEN c ELSE [c EXCEPT !.data[usage + 1] = Imm(Len(c.data))]

\* Block::inputs[key]
HasInput(block, key) == \E i \in 1..Len(block.inputs) : block.inputs[i].key = key
InputOf(block, key) ==
    block.inputs[CHOOSE i \in 1..Len(block.inputs) : block.inputs[i].key = key]

\* the keys of the inputs the explored blocks have, in str order
KeyOrder == <<"MESSAGE", "STRING1", "STRING2", "SUBSTACK", "VALUE">>

\* the keys of the inputs as the map enumerates them, unsorted
SortedKeys_AsEnumerated(block) == [i \in 1..Len(block.inputs) |-> block.inputs[i].key]

\* the keys among KeyOrder that block has: inputs.sort_unstable_by_key
SortedKeys(block) == SelectSeq(KeyOrder, LAMBDA k : HasInput(block, k))

\* StackRepresentable for VarHandle with TargetCodegenContext::var
push_var(ctx, c, id) ==
    IF get_index_of(ctx.variables, id) < 0 THEN panic_with(c, "unknown variable")
    ELSE write(c, <<Op("PushVar"), Imm(get_index_of(ctx.variables, id))>>)

\* StackRepresentable for Primitive::Text with ProjectContext::text
push_text(ctx, c, text) ==
    IF c.panic # "" THEN c
    ELSE IF get_index_of(ctx.text_consts, text) < 0
    THEN panic_with(c, "Text missing from context pool")
    ELSE [write(c, <<Op("PushConstant"), Imm(get_index_of(ctx.text_consts, text))>>)
            EXCEPT !.texts = Append(@, text)]

\* StackRepresentable for &Input, and compile_runtime_only with its loop
\* build_inputs over the inputs in order
RECURSIVE build_push(_, _, _)
RECURSIVE build_inputs(_, _, _, _)
RECURSIVE compile_runtime_only(_, _, _, _, _)
build_push(ctx, c, input) ==
    IF c.panic # "" THEN c
    ELSE IF Len(input.blocks) # 1
    THEN panic_with(c, "Expected single value, found substack")
    ELSE LET block == input.blocks[1]
         IN CASE block.opcode = "text" -> push_text(ctx, c, block.field)
              [] block.opcode = "data_variable" -> push_var(ctx, c, block.field)
              [] block.opcode = "operator_join" ->
                   compile_runtime_only(ctx, c, block, 6, <<"STRING1", "STRING2">>)
              [] OTHER -> panic_with(c, "reporter opcode")

build_inputs(ctx, c, block, keys) ==
    IF Len(keys) = 0 THEN c
    ELSE IF ~HasInput(block, Head(keys)) THEN panic_with(c, "missing input")
    ELSE build_inputs(ctx, build_push(ctx, c, InputOf(block, Head(keys))),
                      block, Tail(keys))

compile_runtime_only(ctx, c, block, runtime_id, inputs_order) ==
    IF block.field # "" THEN panic_with(c, "missing compile-time implementation")
    ELSE write(build_inputs(ctx, c, block,
                            IF Len(inputs_order) = 0 THEN SortedKeys(block)
                            ELSE inputs_order),
               <<Op("CallBuiltin"), Imm(runtime_id)>>)

\* build_set_var and build_change_var: the handle is looked up first
build_store(ctx, c, opcode, id, value) ==
    IF get_index_of(ctx.variables, id) < 0 THEN panic_with(c, "unknown variable")
    ELSE write(build_push(ctx, c, value),
               <<Op(opcode), Imm(get_index_of(ctx.variables, id))>>)

\* compile_block with the compile logic of the block library, and
\* compile_substack; blocks is what is left of the substack
RECURSIVE compile_block(_, _, _)
RECURSIVE compile_blocks(_, _, _)
\* compile_substack ending every substack with build_yield
compile_substack_YieldsAfter(ctx, c, substack) ==
    build_yield(compile_blocks(ctx, c, substack))

compile_substack(ctx, c, substack) ==
    IF Len(substack) = 0 THEN build_yield(c) ELSE compile_blocks(ctx, c, substack)

compile_blocks(ctx, c, blocks) ==
    IF Len(blocks) = 0 THEN c
    ELSE compile_blocks(ctx, compile_block(ctx, c, Head(blocks)), Tail(blocks))

compile_block(ctx, c, block) ==
    IF c.panic # "" THEN c
    ELSE CASE block.opcode = "looks_say" ->
                compile_runtime_only(ctx, c, block, 0, <<>>)
           [] block.opcode = "data_setvariableto" ->
                build_yield(build_store(ctx, c, "SetVar", block.field,
                                        InputOf(block, "VALUE")))
           [] block.opcode = "data_changevariableby" ->
                build_yield(build_store(ctx, c, "ChangeVar", block.field,
                                        InputOf(block, "VALUE")))
           [] block.opcode = "control_forever" ->
                write(compile_substack(ctx, c, InputOf(block, "SUBSTACK").blocks),
                      <<Op("Jump"), Imm(Len(c.data))>>)
           [] block.opcode = "control_repeat" ->
                LET repeats_left == claimed(c)
                    counted == write(build_push(ctx, claim_local(c),
                                                InputOf(block, "TIMES")),
                                     <<Op("SetLocal"), Imm(repeats_left)>>)
                    loop_start == Len(counted.data)
                    loop_end == loop_start + 5
                    tested == write(counted,
                                    <<Op("PushLocal"), Imm(repeats_left),
                                      Op("PushZero"), Op("GreaterThan"),
                                      Op("JumpIfFalse"), Imm(Unpatched),
                                      Op("DecLocal"), Imm(repeats_left)>>)
                    looped == write(compile_substack(ctx, tested,
                                        InputOf(block, "SUBSTACK").blocks),
                                    <<Op("Jump"), Imm(loop_start)>>)
                IN release_local(commit_placeholder(looped, loop_end), repeats_left)
           [] block.opcode = "control_wait" ->
                write(build_push(ctx, c, InputOf(block, "DURATION")), <<Op("Sleep")>>)
           [] OTHER -> panic_with(c, "block opcode")

\* ScriptCompiler::compile
compile(ctx, c, script) ==
    write(compile_substack(ctx, c, script.blocks), <<Op("Return")>>)

\* the body of a script thread: the compiler is created with the warp flag of
\* the start condition and compiles the script
compile_script(ctx, script) ==
    compile(ctx, ScriptCompiler_new(script.warp, 0), script)

(***************************************************************************)
(* The program under execution: the pools a Program is constructed with    *)
(* and the procedures registered with it, in id order.                     *)
(***************************************************************************)
constants == <<Str(<<"h", "i">>), Str(<<"1">>)>>

\* initial values of global_vars and of each target's vars
InitGlobals == <<DefaultValue, Str(<<"1">>)>>
InitTargets == <<<<DefaultValue>>>>

\* index of each opcode's runtime callback in the runtime library built by
\* BlockLibrary::default().split(); entries 1..5 have no runtime callback
Builtins == <<"looks_say", "none", "none", "none", "none", "none", "operator_join">>

\* id 0: sets a variable and broadcasts event 0
ProcMain ==
    [name |-> "main", target_id |-> 0, param_count |-> 0, nlocals |-> 0,
     bytecode |-> <<Op("PushConstant"), Imm(0), Op("SetVar"), Imm(0),
                    Op("DispatchEvent"), Imm(0), Op("Return")>>]

\* id 1: yields, then returns
ProcYielder ==
    [name |-> "yielder", target_id |-> 0, param_count |-> 0, nlocals |-> 0,
     bytecode |-> <<Op("Yield"), Op("Return")>>]

\* id 2: sleeps for the number held in global 1 and decrements that global
ProcSleeper ==
    [name |-> "sleeper", target_id |-> 0, param_count |-> 0, nlocals |-> 1,
     bytecode |-> <<Op("PushVar"), Imm(1), Op("PushVar"), Imm(1),
                    Op("SetLocal"), Imm(0), Op("DecLocal"), Imm(0),
                    Op("PushLocal"), Imm(0), Op("SetVar"), Imm(1),
                    Op("Sleep"), Op("Return")>>]

\* id 3: arithmetic, jumps, a procedure call and two builtin calls
ProcMisc ==
    [name |-> "misc", target_id |-> 0, param_count |-> 0, nlocals |-> 0,
     bytecode |-> <<Op("PushNumber"), Imm(0), Imm(TwoHi),      \*  0
                    Op("PushUInt32"), Imm(1),                  \*  3
                    Op("Add"),                                 \*  5
                    Op("JumpIfTrue"), Imm(9),                  \*  6
                    Op("Return"),                              \*  8
                    Op("ZeroVar"), Imm(2),                     \*  9
                    Op("PushZero"),                            \* 11
                    Op("PushVar"), Imm(2),                     \* 12
                    Op("GreaterThan"),                         \* 14
                    Op("JumpIfFalse"), Imm(18),                \* 15
                    Op("Return"),                              \* 17
                    Op("ClearVar"), Imm(0),                    \* 18
                    Op("Jump"), Imm(23),                       \* 20
                    Op("Return"),                              \* 22
                    Op("PushConstant"), Imm(1),                \* 23
                    Op("CallProcedure"), Imm(4),               \* 25
                    Op("PushConstant"), Imm(0),                \* 27
                    Op("PushVar"), Imm(2),                     \* 29
                    Op("CallBuiltin"), Imm(6),                 \* 31
                    Op("CallBuiltin"), Imm(0),                 \* 33
                    Op("Return")>>]                            \* 35

\* id 4: a procedure with one parameter: adds it to target variable 2
ProcCallee ==
    [name |-> "callee", target_id |-> 0, param_count |-> 1, nlocals |-> 2,
     bytecode |-> <<Op("PushLocal"), Imm(0), Op("ChangeVar"), Imm(2),
                    Op("Return")>>]

\* id 5: keeps a number on the stack across a call with two arguments
ProcOuter ==
    [name |-> "outer", target_id |-> 0, param_count |-> 0, nlocals |-> 1,
     bytecode |-> <<Op("PushUInt32"), Imm(7),                  \*  0
                    Op("PushConstant"), Imm(0),                \*  2
                    Op("PushConstant"), Imm(1),                \*  4
                    Op("CallProcedure"), Imm(6),               \*  6
                    Op("SetLocal"), Imm(0),                    \*  8
                    Op("Return")>>]                            \* 10

\* id 6: two parameters and a third local; calls procedure 4 with its first
\* parameter, then yields inside the call
ProcMid ==
    [name |-> "mid", target_id |-> 0, param_count |-> 2, nlocals |-> 3,
     bytecode |-> <<Op("PushLocal"), Imm(0),                   \*  0
                    Op("CallProcedure"), Imm(4),               \*  2
                    Op("Yield"),                               \*  4
                    Op("Return")>>]                            \*  5

\* Program::procedures after the register calls; register gives the procedure
\* pushed at index i the id i
\* id 7: stores both constants, one in a target variable and one in a global,
\* with a number on the stack underneath
ProcSetter ==
    [name |-> "setter", target_id |-> 0, param_count |-> 0, nlocals |-> 1,
     bytecode |-> <<Op("PushUInt32"), Imm(7),                  \*  0
                    Op("PushConstant"), Imm(1),                \*  2
                    Op("SetVar"), Imm(2),                      \*  4
                    Op("PushConstant"), Imm(0),                \*  6
                    Op("SetVar"), Imm(0),                      \*  8
                    Op("SetLocal"), Imm(0),                    \* 10
                    Op("Return")>>]                            \* 12

\* the context of the one target of the program: the handles of its
\* variables index InitGlobals and then InitTargets[1], the handles of its
\* texts index constants
RunContext == [variables |-> <<"g0", "g1", "v0">>, text_consts |-> <<"hi", "1">>]

\* the procedure ScratchProject::compile makes of a script of that target
Lowered(name, script) ==
    LET c == compile_script(RunContext, script)
    IN [name |-> name, target_id |-> 0, param_count |-> 0,
        nlocals |-> Len(c.locals), bytecode |-> c.data]

\* the scripts whose procedures are ids 8, 10, 11 and 12
RepeatScript ==
    Script(<<Repeat(VarBlock("g1"), <<ChangeVariableBy("v0", TextBlock("1"))>>)>>)
ForeverScript == Script(<<Forever(<<>>)>>)
ForeverRepeatScript ==
    Script(<<Forever(<<Repeat(VarBlock("g0"),
                              <<SetVariableTo("v0", TextBlock("hi"))>>)>>)>>)
WarpScript ==
    ScriptOn("ProcedureCalled", TRUE,
             <<SetVariableTo("v0", TextBlock("hi")), Say(VarBlock("v0")),
               Wait(TextBlock("1"))>>)

\* id 8: repeat (g1) { change v0 by 1 }
ProcRepeat ==
    [name |-> "repeat", target_id |-> 0, param_count |-> 0, nlocals |-> 1,
     bytecode |-> <<Op("PushVar"), Imm(1),                     \*  0
                    Op("SetLocal"), Imm(0),                    \*  2
                    Op("PushLocal"), Imm(0),                   \*  4
                    Op("PushZero"),                            \*  6
                    Op("GreaterThan"),                         \*  7
                    Op("JumpIfFalse"), Imm(19),                \*  8
                    Op("DecLocal"), Imm(0),                    \* 10
                    Op("PushConstant"), Imm(1),                \* 12
                    Op("ChangeVar"), Imm(2),                   \* 14
                    Op("Yield"),                               \* 16
                    Op("Jump"), Imm(4),                        \* 17
                    Op("Return")>>]                            \* 19

\* id 9: calls procedure 8 with a number on the stack underneath
ProcRepeatCaller ==
    [name |-> "repeat caller", target_id |-> 0, param_count |-> 0, nlocals |-> 1,
     bytecode |-> <<Op("PushUInt32"), Imm(7),                  \*  0
                    Op("CallProcedure"), Imm(8),               \*  2
                    Op("SetLocal"), Imm(0),                    \*  4
                    Op("Return")>>]                            \*  6

\* id 10: forever { }
ProcForever ==
    [name |-> "forever", target_id |-> 0, param_count |-> 0, nlocals |-> 0,
     bytecode |-> <<Op("Yield"), Op("Jump"), Imm(0), Op("Return")>>]

\* id 11: forever { repeat (g0) { set v0 to hi } }
ProcForeverRepeat ==
    [name |-> "forever repeat", target_id |-> 0, param_count |-> 0, nlocals |-> 1,
     bytecode |-> <<Op("PushVar"), Imm(0),                     \*  0
                    Op("SetLocal"), Imm(0),                    \*  2
                    Op("PushLocal"), Imm(0),                   \*  4
                    Op("PushZero"),                            \*  6
                    Op("GreaterThan"),                         \*  7
                    Op("JumpIfFalse"), Imm(19),                \*  8
                    Op("DecLocal"), Imm(0),                    \* 10
                    Op("PushConstant"), Imm(0),                \* 12
                    Op("SetVar"), Imm(2),                      \* 14
                    Op("Yield"),                               \* 16
                    Op("Jump"), Imm(4),                        \* 17
                    Op("Jump"), Imm(0),                        \* 19
                    Op("Return")>>]                            \* 21

\* id 12: a procedure definition with warp: set v0 to hi; say (v0); wait (1)
ProcWarp ==
    [name |-> "warp", target_id |-> 0, param_count |-> 0, nlocals |-> 0,
     bytecode |-> <<Op("PushConstant"), Imm(0),                \*  0
                    Op("SetVar"), Imm(2),                      \*  2
                    Op("PushVar"), Imm(2),                     \*  4
                    Op("CallBuiltin"), Imm(0),                 \*  6
                    Op("PushConstant"), Imm(1),                \*  8
                    Op("Sleep"),                               \* 10
                    Op("Return")>>]                            \* 11

\* id 13: calls procedure 12
ProcWarpCaller ==
    [name |-> "warp caller", target_id |-> 0, param_count |-> 0, nlocals |-> 0,
     bytecode |-> <<Op("CallProcedure"), Imm(12), Op("Return")>>]

procedures ==
    <<ProcMain, ProcYielder, ProcSleeper, ProcMisc, ProcCallee, ProcOuter, ProcMid,
      ProcSetter, ProcRepeat, ProcRepeatCaller, ProcForever, ProcForeverRepeat,
      ProcWarp, ProcWarpCaller>>

\* the ids of the procedures compiled with warp
WarpProcs == {12}

ProcIds == 0..(Len(procedures) - 1)

\* the procedures the embedding program of Spec makes handlers
StartProcs == 0..4

Proc(id) == procedures[id + 1]

\* Trigger::OnStart and Trigger::Event(id)
OnStart == [kind |-> "OnStart", id |-> 0]
Event(id) == [kind |-> "Event", id |-> id]
Triggers == {OnStart, Event(0)}

(***************************************************************************)
(* State.                                                                  *)
(***************************************************************************)
VARIABLES
    triggers,       \* Program::triggers: trigger -> handler procedure ids
    global_vars,    \* Program::global_vars: the value of each global
    targets,        \* Program::targets: per target, the value of each variable
    task_queue,     \* Program::task_queue, head first
    sleepers,       \* Program::sleepers: the array of the binary heap
    cur,            \* the task run_frame has popped and is running
    pc,             \* where the program is: outside run_frame or inside it
    now,            \* the reading of the monotonic clock
    frame_start,    \* run_frame's frame_start
    next_priority,  \* run_frame's next_priority
    added,          \* history: per trigger, the procedures of its add_trigger
                    \* calls, in call order
    born,           \* history: per task created, the dispatch that created it
    ndispatch,      \* history: number of dispatch calls made
    frame,          \* history: number of frames started
    log,            \* history: one record per time slice, in order
    ev,             \* history: the step taken last
    build           \* ScratchProject::compile: the project under compilation
                    \* and what compile has built from it so far

progVars == <<triggers, global_vars, targets>>
frameVars == <<frame_start, next_priority>>
histVars == <<added, born, ndispatch, frame, log, ev>>
vars == <<triggers, global_vars, targets, task_queue, sleepers, cur, pc, now,
          frame_start, next_priority, added, born, ndispatch, frame, log, ev,
          build>>

\* the value of cur while no task is being run
NoTask == [id |-> 0, procedure |-> 0, location |-> 0, scopes |-> <<>>,
           stack |-> <<>>, complete |-> TRUE, wake_time |-> 0, calls |-> <<>>]

\* the value of build while no project is being compiled
NoBuild == [phase |-> "none"]

Last(s) == s[Len(s)]
Front(s) == SubSeq(s, 1, Len(s) - 1)

(***************************************************************************)
(* The sleeper heap: std's BinaryHeap<Reverse<Sleeper>>, a max-heap in an  *)
(* array whose order is Sleeper's Ord reversed, so the least wake_time is  *)
(* at the root.  Position p of the array is element p + 1 of the sequence. *)
(***************************************************************************)
\* the order of Sleeper without Reverse
SleeperLe_NotReversed(a, b) == a.wake_time <= b.wake_time

\* Reverse(Sleeper(a)) <= Reverse(Sleeper(b))
SleeperLe(a, b) == a.wake_time >= b.wake_time

Swap(d, p, q) == [d EXCEPT ![p + 1] = d[q + 1], ![q + 1] = d[p + 1]]

RECURSIVE SiftUp(_, _, _)
SiftUp(d, start, pos) ==
    IF pos > start
    THEN LET parent == (pos - 1) \div 2
         IN IF SleeperLe(d[pos + 1], d[parent + 1]) THEN d
            ELSE SiftUp(Swap(d, pos, parent), start, parent)
    ELSE d

RECURSIVE SiftDownToBottom(_, _, _)
SiftDownToBottom(d, start, pos) ==
    LET end == Len(d)
        child == 2 * pos + 1
    IN IF child + 2 <= end
       THEN LET c == IF SleeperLe(d[child + 1], d[child + 2]) THEN child + 1
                     ELSE child
            IN SiftDownToBottom(Swap(d, pos, c), start, c)
       ELSE IF child = end - 1
            THEN SiftUp(Swap(d, pos, child), start, child)
            ELSE SiftUp(d, start, pos)

\* BinaryHeap::push
HeapPush(d, task) == SiftUp(Append(d, task), 0, Len(d))

\* BinaryHeap::pop on a nonempty heap: the item and the remaining heap
HeapPop(d) ==
    IF Len(d) = 1 THEN [item |-> d[1], heap |-> <<>>]
    ELSE [item |-> d[1],
          heap |-> SiftDownToBottom([Front(d) EXCEPT ![1] = Last(d)], 0, 0)]

(***************************************************************************)
(* Program.                                                                *)
(***************************************************************************)
\* Task::new; id names the task in the history variables, and calls is
\* history too: one record per CallProcedure of the task that has not
\* returned, holding the task as the call found it
TaskNew(procedure, id, t) ==
    [id |-> id, procedure |-> procedure, location |-> 0,
     scopes |-> <<[i \in 1..Proc(procedure).nlocals |-> DefaultValue]>>,
     stack |-> <<>>, complete |-> FALSE, wake_time |-> t, calls |-> <<>>]

\* Program::add_trigger on the trigger table
add_trigger(trig, proc, trigger) == [trig EXCEPT ![trigger] = Append(@, proc)]

\* dispatch with the new tasks put at the head of the ready queue
dispatch_AtHead(queue, handlers, first_id, t) ==
    [i \in 1..Len(handlers) |-> TaskNew(handlers[i], first_id + i - 1, t)] \o queue

\* Program::dispatch: the ready queue after the call; the tasks are numbered
\* from first_id on
dispatch(queue, handlers, first_id, t) ==
    queue \o [i \in 1..Len(handlers) |-> TaskNew(handlers[i], first_id + i - 1, t)]

\* the assertion of Task::new fails for a handler that takes parameters
DispatchPanics(handlers) ==
    \E i \in 1..Len(handlers) : Proc(handlers[i]).param_count # 0

\* has_incomplete_tasks looking at the ready queue alone
has_incomplete_tasks_QueueOnly == Len(task_queue) > 0

\* Program::has_incomplete_tasks
has_incomplete_tasks == Len(sleepers) > 0 \/ Len(task_queue) > 0

\* Program::next_wake
next_wake(heap, t) == IF Len(heap) > 0 THEN heap[1].wake_time ELSE t

\* Program::wake_sleepers: the heap and the ready queue after the call
RECURSIVE wake_sleepers(_, _, _)
wake_sleepers(heap, queue, t) ==
    IF Len(heap) > 0 /\ heap[1].wake_time <= t
    THEN LET r == HeapPop(heap)
         IN wake_sleepers(r.heap, Append(queue, r.item), t)
    ELSE [heap |-> heap, queue |-> queue]

\* run_frame pushing the task back whether or not it is complete
AfterSlice_KeepsComplete(heap, task) == HeapPush(heap, task)

\* run_frame after run_until_yield returns: an incomplete task goes to the heap
AfterSlice(heap, task) == IF task.complete THEN heap ELSE HeapPush(heap, task)

\* Program::read_var
read_var(g, tg, target_id, id) ==
    IF id >= Len(g) THEN tg[target_id + 1][id - Len(g) + 1] ELSE g[id + 1]

\* with_var writing the variable of the first target whatever target_id is
with_var_FirstTarget(g, tg, target_id, id, val) ==
    IF id >= Len(g)
    THEN [g |-> g, tg |-> [tg EXCEPT ![1][id - Len(g) + 1] = val]]
    ELSE [g |-> [g EXCEPT ![id + 1] = val], tg |-> tg]

\* Program::with_var: the globals and the targets after a callback that
\* leaves val in the variable
with_var(g, tg, target_id, id, val) ==
    IF id >= Len(g)
    THEN [g |-> g, tg |-> [tg EXCEPT ![target_id + 1][id - Len(g) + 1] = val]]
    ELSE [g |-> [g EXCEPT ![id + 1] = val], tg |-> tg]

\* the value with_var hands to its callback
with_var_arg(g, tg, target_id, id) ==
    IF id >= Len(g) THEN tg[target_id + 1][id - Len(g) + 1] ELSE g[id + 1]

\* Program::set_var: with_var with the callback that stores val
set_var(g, tg, target_id, id, val) == with_var(g, tg, target_id, id, val)

\* the variable lookup indexes out of bounds
VarOutOfRange(g, tg, target_id, id) ==
    IF target_id >= Len(tg) THEN TRUE
    ELSE id >= Len(g) /\ id - Len(g) >= Len(tg[target_id + 1])

(***************************************************************************)
(* Task: the interpreter.                                                  *)
(***************************************************************************)
Code(task) == Proc(task.procedure).bytecode

\* the word at offset off of the task's current procedure
Word(task, off) == Code(task)[off + 1]

\* the opcode the task executes next
CurOp == Word(cur, cur.location).op

\* its immediates
Imm1 == Word(cur, cur.location + 1).imm
Imm2 == Word(cur, cur.location + 2).imm

Top(task) == Last(task.stack)

\* Vec::pop on the operand stack, n times
Popped(task, n) == SubSeq(task.stack, 1, Len(task.stack) - n)

\* Task::read_local on the innermost scope
read_local(task, idx) == Last(task.scopes)[idx + 1]

\* Task::set_local
set_local(task, idx, val) ==
    [task EXCEPT !.scopes[Len(task.scopes)][idx + 1] = val]

\* the scope with the parameters in the order in which they were pushed
NewScope_PushOrder(task, callee) ==
    [i \in 1..Proc(callee).nlocals |->
        IF i <= Proc(callee).param_count
        THEN task.stack[Len(task.stack) - Proc(callee).param_count + i]
        ELSE DefaultValue]

\* the scope CallProcedure builds: the parameters in pop order, then defaults
\* (ProcedureValue::new refuses param_count > locals.len())
NewScope(task, callee) ==
    [i \in 1..Proc(callee).nlocals |->
        IF i <= Proc(callee).param_count
        THEN task.stack[Len(task.stack) - i + 1]
        ELSE DefaultValue]

\* Sleep that leaves the wake time at the clock reading
SleepWake_NoDuration(t, val) == t

\* wake_time a task that executes Sleep at clock reading t with popped value
\* val gets: Instant::now() + Duration::from_secs_f64(val.cast_number())
SleepWake(t, val) == t + cast_number(val)

\* run_until_yield or run_opcode panics on the next instruction: the end of
\* the bytecode, an opcode run_opcode does not implement, a missing operand,
\* an index out of range, a value that cannot be cast, a negative duration
Panics ==
    LET n == Len(cur.stack)
        len == Len(Code(cur))
        tid == Proc(cur.procedure).target_id
    IN \/ cur.location >= len
       \/ CurOp \notin Implemented
       \/ cur.location + Arity(CurOp) >= len
       \/ CurOp = "PushConstant" /\ Imm1 >= Len(constants)
       \/ CurOp = "CallBuiltin" /\
            \/ Imm1 >= Len(Builtins)
            \/ Builtins[Imm1 + 1] = "none"
            \/ Builtins[Imm1 + 1] = "looks_say" /\ n < 1
            \/ Builtins[Imm1 + 1] = "operator_join" /\
                 \/ n < 2
                 \/ ~Castable(cur.stack[n]) \/ ~Castable(cur.stack[n - 1])
       \/ CurOp = "CallProcedure" /\
            \/ Imm1 >= Len(procedures)
            \/ n < Proc(Imm1).param_count
       \/ CurOp \in {"JumpIfTrue", "JumpIfFalse"} /\ (n < 1 \/ ~Castable(Top(cur)))
       \/ CurOp = "Return" /\ n >= 1 /\
            \/ Top(cur).tag # "Procedure"
            \/ n < 2
            \/ cur.stack[n - 1].tag # "ReturnLocation"
       \/ CurOp = "Sleep" /\
            \/ n < 1
            \/ ~Castable(Top(cur))
            \/ cast_number(Top(cur)) < 0
       \/ CurOp \in {"SetVar", "ChangeVar", "ClearVar", "ZeroVar", "PushVar"} /\
            VarOutOfRange(global_vars, targets, tid, Imm1)
       \/ CurOp = "SetVar" /\ n < 1
       \/ CurOp = "ChangeVar" /\
            \/ n < 1
            \/ ~Castable(Top(cur))
            \/ ~Castable(read_var(global_vars, targets, tid, Imm1))
       \/ CurOp \in {"SetLocal", "PushLocal", "DecLocal"} /\
            Imm1 >= Len(Last(cur.scopes))
       \/ CurOp = "SetLocal" /\ n < 1
       \/ CurOp = "DecLocal" /\ ~Castable(read_local(cur, Imm1))
       \/ CurOp \in {"Add", "GreaterThan"} /\
            \/ n < 2
            \/ ~Castable(cur.stack[n]) \/ ~Castable(cur.stack[n - 1])

\* the task is in run_until_yield's loop and its next instruction is name
Executes(name) ==
    /\ pc = "slice"
    /\ cur.location < Len(Code(cur))
    /\ CurOp = name
    /\ ~Panics

\* the slice record of the running task, closed with the opcode that ended it;
\* for a Sleep, d is the popped duration and due the clock reading plus d;
\* scopes is the number of scopes the task is left with
Closed(name, d, due, scopes) ==
    [log EXCEPT ![Len(log)] =
        [@ EXCEPT !.end = name, !.d = d, !.due = due, !.scopes = scopes]]

\* run_opcode returned false: the loop of run_until_yield goes on with task;
\* ev records the opcode executed, its location and the operand stack before it
Continue(task) ==
    /\ cur' = task
    /\ pc' = "slice"
    /\ UNCHANGED build
    /\ ev' = [kind |-> "Op", trigger |-> OnStart, op |-> CurOp,
              at |-> cur.location, before |-> cur.stack]
    /\ UNCHANGED <<triggers, added, task_queue, sleepers, now, frameVars, born,
                   ndispatch, frame, log>>

\* run_opcode returned true: run_until_yield returns and run_frame pushes
\* the task on the sleeper heap unless it is complete
Suspend(task, name, d, t) ==
    /\ sleepers' = AfterSlice(sleepers, task)
    /\ cur' = NoTask
    /\ pc' = "frame"
    /\ now' = t
    /\ log' = Closed(name, d, t + d, Len(task.scopes))
    /\ UNCHANGED build
    /\ ev' = [kind |-> "Op", trigger |-> OnStart]
    /\ UNCHANGED <<triggers, added, frameVars, frame>>

Advance(task, n) == [task EXCEPT !.location = @ + n]

Push(task, val) == [task EXCEPT !.stack = Append(@, val)]

OpPushConstant ==
    /\ Executes("PushConstant")
    /\ Continue(Push(Advance(cur, 2), constants[Imm1 + 1]))
    /\ UNCHANGED <<global_vars, targets>>

OpPushZero ==
    /\ Executes("PushZero")
    /\ Continue(Push(Advance(cur, 1), Num(0)))
    /\ UNCHANGED <<global_vars, targets>>

OpPushNumber ==
    /\ Executes("PushNumber")
    /\ Continue(Push(Advance(cur, 3), Num(F64FromWords(Imm1, Imm2))))
    /\ UNCHANGED <<global_vars, targets>>

OpPushUInt32 ==
    /\ Executes("PushUInt32")
    /\ Continue(Push(Advance(cur, 2), Num(Imm1)))
    /\ UNCHANGED <<global_vars, targets>>

\* DispatchEvent without the return of true: the dispatching task goes on
OpDispatchEventUpTo_GoesOn(bound) ==
    /\ Executes("DispatchEvent")
    /\ LET handlers == triggers[Event(Imm1)]
       IN /\ Len(born) + Len(handlers) <= bound
          /\ ~DispatchPanics(handlers)
          /\ task_queue' = dispatch(task_queue, handlers, Len(born) + 1, now)
          /\ born' = born \o [i \in 1..Len(handlers) |->
                        [trigger |-> Event(Imm1), batch |-> ndispatch + 1,
                         parent |-> cur.id, at |-> Len(log)]]
          /\ ndispatch' = ndispatch + 1
    /\ cur' = Advance(cur, 2)
    /\ pc' = "slice"
    /\ UNCHANGED build
    /\ ev' = [kind |-> "Op", trigger |-> Event(Imm1)]
    /\ UNCHANGED <<triggers, added, global_vars, targets, sleepers, now, frameVars,
                   frame, log>>

\* DispatchEvent, in a run that creates at most bound tasks
OpDispatchEventUpTo(bound) ==
    /\ Executes("DispatchEvent")
    /\ LET handlers == triggers[Event(Imm1)]
       IN /\ Len(born) + Len(handlers) <= bound
          /\ IF DispatchPanics(handlers)
             THEN /\ pc' = "panic"
                  /\ UNCHANGED build
                  /\ ev' = [kind |-> "Op", trigger |-> Event(Imm1)]
                  /\ UNCHANGED <<triggers, added, task_queue, sleepers, cur, now,
                                 frameVars, born, ndispatch, frame, log>>
             ELSE /\ task_queue' = dispatch(task_queue, handlers, Len(born) + 1, now)
                  /\ born' = born \o [i \in 1..Len(handlers) |->
                                [trigger |-> Event(Imm1), batch |-> ndispatch + 1,
                                 parent |-> cur.id, at |-> Len(log)]]
                  /\ ndispatch' = ndispatch + 1
                  /\ Suspend(Advance(cur, 2), "DispatchEvent", 0, now)
    /\ UNCHANGED <<global_vars, targets>>

OpDispatchEvent == OpDispatchEventUpTo(MaxTasks)

\* the runtime callbacks of looks_say and operator_join (blocks.rs)
OpCallBuiltin ==
    /\ Executes("CallBuiltin")
    /\ LET n == Len(cur.stack)
           t == Advance(cur, 2)
           after ==
             IF Builtins[Imm1 + 1] = "looks_say"
             THEN [t EXCEPT !.stack = Popped(cur, 1)]
             ELSE [t EXCEPT !.stack =
                     Append(Popped(cur, 2),
                            Str(cast_string(cur.stack[n - 1]) \o
                                cast_string(cur.stack[n])))]
       IN Suspend(after, "CallBuiltin", 0, now)
    /\ UNCHANGED <<global_vars, targets, task_queue, born, ndispatch>>

\* CallProcedure saving the location before its immediate is read
OpCallProcedure_ReturnsToImmediate ==
    /\ Executes("CallProcedure")
    /\ LET callee == Imm1
           rest == Popped(cur, Proc(callee).param_count)
       IN Continue([cur EXCEPT
              !.stack = rest \o <<ReturnLocation(cur.location + 1),
                                  ProcedureV(cur.procedure)>>,
              !.location = 0,
              !.procedure = callee,
              !.scopes = Append(@, NewScope(cur, callee)),
              !.calls = Append(@, [procedure |-> cur.procedure,
                                   at |-> cur.location,
                                   scopes |-> cur.scopes,
                                   stack |-> cur.stack])])
    /\ UNCHANGED <<global_vars, targets>>

OpCallProcedure ==
    /\ Executes("CallProcedure")
    /\ LET callee == Imm1
           rest == Popped(cur, Proc(callee).param_count)
       IN Continue([cur EXCEPT
              !.stack = rest \o <<ReturnLocation(cur.location + 2),
                                  ProcedureV(cur.procedure)>>,
              !.location = 0,
              !.procedure = callee,
              !.scopes = Append(@, NewScope(cur, callee)),
              !.calls = Append(@, [procedure |-> cur.procedure,
                                   at |-> cur.location,
                                   scopes |-> cur.scopes,
                                   stack |-> cur.stack])])
    /\ UNCHANGED <<global_vars, targets>>

OpJump ==
    /\ Executes("Jump")
    /\ Continue([cur EXCEPT !.location = Imm1])
    /\ UNCHANGED <<global_vars, targets>>

OpJumpIfTrue ==
    /\ Executes("JumpIfTrue")
    /\ Continue([cur EXCEPT
           !.stack = Popped(cur, 1),
           !.location = IF cast_boolean(Top(cur)) THEN Imm1 ELSE cur.location + 2])
    /\ UNCHANGED <<global_vars, targets>>

OpJumpIfFalse ==
    /\ Executes("JumpIfFalse")
    /\ Continue([cur EXCEPT
           !.stack = Popped(cur, 1),
           !.location = IF ~cast_boolean(Top(cur)) THEN Imm1 ELSE cur.location + 2])
    /\ UNCHANGED <<global_vars, targets>>

\* Return from the root frame leaving the scope as a nested Return does
OpReturnRoot_PopsScope ==
    /\ Executes("Return")
    /\ Len(cur.stack) = 0
    /\ Suspend([Advance(cur, 1) EXCEPT !.complete = TRUE, !.scopes = Front(@)],
               "Return", 0, now)
    /\ UNCHANGED <<global_vars, targets, task_queue, born, ndispatch>>

\* Return with an empty operand stack: the task returns from its root frame
OpReturnRoot ==
    /\ Executes("Return")
    /\ Len(cur.stack) = 0
    /\ Suspend([Advance(cur, 1) EXCEPT !.complete = TRUE], "Return", 0, now)
    /\ UNCHANGED <<global_vars, targets, task_queue, born, ndispatch>>

\* Return with the frame marker on the operand stack
OpReturnNested ==
    /\ Executes("Return")
    /\ Len(cur.stack) > 0
    /\ LET n == Len(cur.stack)
       IN Continue([cur EXCEPT
              !.stack = Popped(cur, 2),
              !.scopes = IF Len(@) > 0 THEN Front(@) ELSE @,
              !.calls = IF Len(@) > 0 THEN Front(@) ELSE @,
              !.procedure = cur.stack[n].v,
              !.location = cur.stack[n - 1].v])
    /\ UNCHANGED <<global_vars, targets>>

\* Yield without the return of true
OpYield_FallsThrough ==
    /\ Executes("Yield")
    /\ Continue(Advance(cur, 1))
    /\ UNCHANGED <<global_vars, targets>>

OpYield ==
    /\ Executes("Yield")
    /\ Suspend(Advance(cur, 1), "Yield", 0, now)
    /\ UNCHANGED <<global_vars, targets, task_queue, born, ndispatch>>

OpSleep ==
    /\ Executes("Sleep")
    /\ \E t \in now..MaxTime :
         /\ SleepWake(t, Top(cur)) <= MaxTime
         /\ Suspend([Advance(cur, 1) EXCEPT !.stack = Popped(cur, 1),
                                            !.wake_time = SleepWake(t, Top(cur))],
                    "Sleep", cast_number(Top(cur)), t)
    /\ UNCHANGED <<global_vars, targets, task_queue, born, ndispatch>>

\* SetVar, ChangeVar, ClearVar and ZeroVar store val in variable Imm1
Store(task, val) ==
    LET r == set_var(global_vars, targets, Proc(cur.procedure).target_id, Imm1, val)
    IN /\ global_vars' = r.g
       /\ targets' = r.tg
       /\ Continue(task)

\* SetVar storing the top of the stack without popping it
OpSetVar_KeepsOperand ==
    /\ Executes("SetVar")
    /\ Store(Advance(cur, 2), Top(cur))

OpSetVar ==
    /\ Executes("SetVar")
    /\ Store([Advance(cur, 2) EXCEPT !.stack = Popped(cur, 1)], Top(cur))

\* ChangeVar storing its operand instead of the sum
OpChangeVar_Overwrites ==
    /\ Executes("ChangeVar")
    /\ Store([Advance(cur, 2) EXCEPT !.stack = Popped(cur, 1)],
             Num(cast_number(Top(cur))))

OpChangeVar ==
    /\ Executes("ChangeVar")
    /\ LET old == with_var_arg(global_vars, targets,
                               Proc(cur.procedure).target_id, Imm1)
       IN Store([Advance(cur, 2) EXCEPT !.stack = Popped(cur, 1)],
                Num(cast_number(old) + cast_number(Top(cur))))

OpClearVar ==
    /\ Executes("ClearVar")
    /\ Store(Advance(cur, 2), DefaultValue)

OpZeroVar ==
    /\ Executes("ZeroVar")
    /\ Store(Advance(cur, 2), Num(0))

OpPushVar ==
    /\ Executes("PushVar")
    /\ Continue(Push(Advance(cur, 2),
           read_var(global_vars, targets, Proc(cur.procedure).target_id, Imm1)))
    /\ UNCHANGED <<global_vars, targets>>

\* SetLocal reading the top of the stack without popping it
OpSetLocal_KeepsOperand ==
    /\ Executes("SetLocal")
    /\ Continue(set_local(Advance(cur, 2), Imm1, Top(cur)))
    /\ UNCHANGED <<global_vars, targets>>

OpSetLocal ==
    /\ Executes("SetLocal")
    /\ Continue(set_local([Advance(cur, 2) EXCEPT !.stack = Popped(cur, 1)],
                          Imm1, Top(cur)))
    /\ UNCHANGED <<global_vars, targets>>

OpPushLocal ==
    /\ Executes("PushLocal")
    /\ Continue(Push(Advance(cur, 2), read_local(cur, Imm1)))
    /\ UNCHANGED <<global_vars, targets>>

OpDecLocal ==
    /\ Executes("DecLocal")
    /\ Continue(set_local(Advance(cur, 2), Imm1,
                          Num(cast_number(read_local(cur, Imm1)) - 1)))
    /\ UNCHANGED <<global_vars, targets>>

OpAdd ==
    /\ Executes("Add")
    /\ LET n == Len(cur.stack)
       IN Continue([Advance(cur, 1) EXCEPT !.stack =
              Append(Popped(cur, 2),
                     Num(cast_number(cur.stack[n - 1]) + cast_number(cur.stack[n])))])
    /\ UNCHANGED <<global_vars, targets>>

\* GreaterThan with the operands in pop order: the last pushed on the left
OpGreaterThan_PopOrder ==
    /\ Executes("GreaterThan")
    /\ LET n == Len(cur.stack)
       IN Continue([Advance(cur, 1) EXCEPT !.stack =
              Append(Popped(cur, 2),
                     Bool(cast_number(cur.stack[n]) > cast_number(cur.stack[n - 1])))])
    /\ UNCHANGED <<global_vars, targets>>

OpGreaterThan ==
    /\ Executes("GreaterThan")
    /\ LET n == Len(cur.stack)
       IN Continue([Advance(cur, 1) EXCEPT !.stack =
              Append(Popped(cur, 2),
                     Bool(cast_number(cur.stack[n - 1]) > cast_number(cur.stack[n])))])
    /\ UNCHANGED <<global_vars, targets>>

\* a panic unwinds out of run_frame and ends the process
OpPanic ==
    /\ pc = "slice"
    /\ Panics
    /\ pc' = "panic"
    /\ UNCHANGED build
    /\ ev' = [kind |-> "Op", trigger |-> OnStart]
    /\ UNCHANGED <<triggers, added, global_vars, targets, task_queue, sleepers, cur, now,
                   frameVars, born, ndispatch, frame, log>>

\* one iteration of the loop of run_until_yield
RunOpcode ==
    \/ OpPushConstant \/ OpPushZero \/ OpPushNumber \/ OpPushUInt32
    \/ OpDispatchEvent \/ OpCallBuiltin \/ OpCallProcedure
    \/ OpJump \/ OpJumpIfTrue \/ OpJumpIfFalse
    \/ OpReturnRoot \/ OpReturnNested \/ OpYield \/ OpSleep
    \/ OpSetVar \/ OpChangeVar \/ OpClearVar \/ OpZeroVar \/ OpPushVar
    \/ OpSetLocal \/ OpPushLocal \/ OpDecLocal
    \/ OpAdd \/ OpGreaterThan
    \/ OpPanic

(***************************************************************************)
(* The embedding program and the frame loop.                               *)
(***************************************************************************)
\* Duration::from_nanos(1), the step of next_priority, in clock ticks (the
\* priority is overwritten by run_until_yield before anything compares it, so
\* that counting it in the ticks of Sleep changes no behaviour)
PriorityStep == 1

Max(a, b) == IF a >= b THEN a ELSE b

\* number of add_trigger calls made so far
TriggerCount == Len(triggers[OnStart]) + Len(triggers[Event(0)])

\* the program is built: a registered procedure is made a handler of a trigger
AddTrigger(proc, trigger) ==
    /\ pc = "idle"
    /\ Len(born) = 0 /\ frame = 0
    /\ TriggerCount < MaxTriggers
    /\ triggers' = add_trigger(triggers, proc, trigger)
    /\ added' = [added EXCEPT ![trigger] = @ \o <<proc>>]
    /\ UNCHANGED build
    /\ ev' = [kind |-> "AddTrigger", trigger |-> trigger]
    /\ UNCHANGED <<global_vars, targets, task_queue, sleepers, cur, pc, now,
                   frameVars, born, ndispatch, frame, log>>

\* the embedding program calls Program::dispatch between two frames (main.rs
\* and bin/compile.rs dispatch Trigger::OnStart)
DispatchUpTo(trigger, bound) ==
    /\ pc = "idle"
    /\ LET handlers == triggers[trigger]
       IN /\ Len(born) + Len(handlers) <= bound
          /\ IF DispatchPanics(handlers)
             THEN /\ pc' = "panic"
                  /\ UNCHANGED <<task_queue, born, ndispatch>>
             ELSE /\ task_queue' = dispatch(task_queue, handlers, Len(born) + 1, now)
                  /\ born' = born \o [i \in 1..Len(handlers) |->
                                [trigger |-> trigger, batch |-> ndispatch + 1,
                                 parent |-> 0, at |-> Len(log)]]
                  /\ ndispatch' = IF Len(handlers) > 0 THEN ndispatch + 1
                                  ELSE ndispatch
                  /\ pc' = pc
    /\ UNCHANGED build
    /\ ev' = [kind |-> "Dispatch", trigger |-> trigger]
    /\ UNCHANGED <<triggers, added, global_vars, targets, sleepers, cur, now, frameVars,
                   frame, log>>

Dispatch(trigger) == DispatchUpTo(trigger, MaxTasks)

\* run_frame up to its while loop: read the clock, wait for the earliest
\* sleeper, wake sleepers
FrameStart ==
    /\ pc = "idle"
    /\ has_incomplete_tasks
    /\ \E t \in now..MaxTime :
         LET wake_time == next_wake(sleepers, t)
             r == wake_sleepers(sleepers, task_queue, wake_time)
         IN /\ wake_time <= MaxTime
            /\ frame_start' = t
            /\ now' = Max(t, wake_time)
            /\ sleepers' = r.heap
            /\ task_queue' = r.queue
            /\ next_priority' = t
    /\ pc' = "frame"
    /\ frame' = frame + 1
    /\ UNCHANGED build
    /\ ev' = [kind |-> "FrameStart", trigger |-> OnStart]
    /\ UNCHANGED <<triggers, added, global_vars, targets, cur, born, ndispatch, log>>

\* the while loop popping the back of the ready queue
PickTask_FromBack ==
    /\ pc = "frame"
    /\ Len(task_queue) > 0
    /\ cur' = [Last(task_queue) EXCEPT !.wake_time = next_priority]
    /\ task_queue' = Front(task_queue)
    /\ next_priority' = next_priority + PriorityStep
    /\ pc' = "picked"
    /\ UNCHANGED build
    /\ ev' = [kind |-> "PickTask", trigger |-> OnStart]
    /\ UNCHANGED <<triggers, added, global_vars, targets, sleepers, now, frame_start,
                   born, ndispatch, frame, log>>

\* the while loop pops the head of the ready queue and gives it its priority
PickTask ==
    /\ pc = "frame"
    /\ Len(task_queue) > 0
    /\ cur' = [Head(task_queue) EXCEPT !.wake_time = next_priority]
    /\ task_queue' = Tail(task_queue)
    /\ next_priority' = next_priority + PriorityStep
    /\ pc' = "picked"
    /\ UNCHANGED build
    /\ ev' = [kind |-> "PickTask", trigger |-> OnStart]
    /\ UNCHANGED <<triggers, added, global_vars, targets, sleepers, now, frame_start,
                   born, ndispatch, frame, log>>

\* run_until_yield is entered: the wake time is reset to the clock reading
BeginSlice ==
    /\ pc = "picked"
    /\ \E t \in now..MaxTime :
         /\ now' = t
         /\ cur' = [cur EXCEPT !.wake_time = t]
         /\ log' = Append(log, [id |-> cur.id, proc |-> cur.procedure,
                                frame |-> frame, end |-> "running",
                                d |-> 0, due |-> 0, scopes |-> Len(cur.scopes)])
    /\ pc' = "slice"
    /\ UNCHANGED build
    /\ ev' = [kind |-> "BeginSlice", trigger |-> OnStart]
    /\ UNCHANGED <<triggers, added, global_vars, targets, task_queue, sleepers,
                   frameVars, born, ndispatch, frame>>

\* the ready queue is empty: run_frame returns
FrameEnd ==
    /\ pc = "frame"
    /\ Len(task_queue) = 0
    /\ pc' = "idle"
    /\ UNCHANGED build
    /\ ev' = [kind |-> "FrameEnd", trigger |-> OnStart]
    /\ UNCHANGED <<triggers, added, global_vars, targets, task_queue, sleepers, cur, now,
                   frameVars, born, ndispatch, frame, log>>

Init ==
    /\ triggers = [t \in Triggers |-> <<>>]
    /\ global_vars = InitGlobals
    /\ targets = InitTargets
    /\ task_queue = <<>>
    /\ sleepers = <<>>
    /\ cur = NoTask
    /\ pc = "idle"
    /\ now = 0
    /\ frame_start = 0
    /\ next_priority = 0
    /\ added = [t \in Triggers |-> <<>>]
    /\ born = <<>>
    /\ ndispatch = 0
    /\ frame = 0
    /\ log = <<>>
    /\ ev = [kind |-> "Init", trigger |-> OnStart]
    /\ build = NoBuild

Next ==
    \/ \E proc \in StartProcs, trigger \in Triggers : AddTrigger(proc, trigger)
    \/ Dispatch(OnStart)
    \/ FrameStart
    \/ PickTask
    \/ BeginSlice
    \/ RunOpcode
    \/ FrameEnd

Spec == Init /\ [][Next]_vars

\* Programs of yielding and broadcasting tasks, built already: two yielders
\* started by OnStart, or a broadcaster started by OnStart whose event starts
\* a yielder
RoundTables ==
    { [t \in Triggers |-> IF t = OnStart THEN <<1, 1>> ELSE <<>>],
      [t \in Triggers |-> IF t = OnStart THEN <<0>> ELSE <<1>>] }

InitRounds ==
    /\ triggers \in RoundTables
    /\ added = triggers
    /\ global_vars = InitGlobals
    /\ targets = InitTargets
    /\ task_queue = <<>>
    /\ sleepers = <<>>
    /\ cur = NoTask
    /\ pc = "idle"
    /\ now = 0
    /\ frame_start = 0
    /\ next_priority = 0
    /\ born = <<>>
    /\ ndispatch = 0
    /\ frame = 0
    /\ log = <<>>
    /\ ev = [kind |-> "Init", trigger |-> OnStart]
    /\ build = NoBuild

NextRounds ==
    \/ DispatchUpTo(OnStart, MaxRoundTasks)
    \/ FrameStart
    \/ PickTask
    \/ BeginSlice
    \/ OpPushConstant
    \/ OpSetVar
    \/ OpDispatchEventUpTo(MaxRoundTasks)
    \/ OpYield
    \/ OpReturnRoot
    \/ FrameEnd

SpecRounds == InitRounds /\ [][NextRounds]_vars

\* A program of nested procedure calls, built already: OnStart starts
\* procedure 5, which calls 6, which calls 4
CallTable ==
    [t \in Triggers |-> IF t = OnStart THEN <<5>>
                        ELSE IF t = Event(0) THEN <<7>> ELSE <<>>]

InitCalls ==
    /\ triggers = CallTable
    /\ added = triggers
    /\ global_vars = InitGlobals
    /\ targets = InitTargets
    /\ task_queue = <<>>
    /\ sleepers = <<>>
    /\ cur = NoTask
    /\ pc = "idle"
    /\ now = 0
    /\ frame_start = 0
    /\ next_priority = 0
    /\ born = <<>>
    /\ ndispatch = 0
    /\ frame = 0
    /\ log = <<>>
    /\ ev = [kind |-> "Init", trigger |-> OnStart]
    /\ build = NoBuild

NextCalls ==
    \/ \E trigger \in {OnStart, Event(0)} : DispatchUpTo(trigger, MaxCallTasks)
    \/ FrameStart
    \/ PickTask
    \/ BeginSlice
    \/ OpPushUInt32
    \/ OpPushConstant
    \/ OpCallProcedure
    \/ OpPushLocal
    \/ OpChangeVar
    \/ OpYield
    \/ OpReturnNested
    \/ OpReturnRoot
    \/ OpSetLocal
    \/ OpSetVar
    \/ FrameEnd

SpecCalls == InitCalls /\ [][NextCalls]_vars

\* Programs of compiled loops, built already: OnStart starts a counted loop
\* (alone, or called), a forever loop beside a task that yields once, or the
\* caller of a warp procedure; global 1 holds the TIMES of the counted loop
LoopTables ==
    {[t \in Triggers |-> IF t = OnStart THEN handlers ELSE <<>>] :
       handlers \in {<<8>>, <<9>>, <<10, 1>>, <<11, 1>>, <<13>>}}

RepeatTimes == {DefaultValue, Str(<<"1">>), Num(2), Str(<<"3">>)}

InitLoops ==
    /\ triggers \in LoopTables
    /\ added = triggers
    /\ \E times \in RepeatTimes : global_vars = <<DefaultValue, times>>
    /\ targets = InitTargets
    /\ task_queue = <<>>
    /\ sleepers = <<>>
    /\ cur = NoTask
    /\ pc = "idle"
    /\ now = 0
    /\ frame_start = 0
    /\ next_priority = 0
    /\ born = <<>>
    /\ ndispatch = 0
    /\ frame = 0
    /\ log = <<>>
    /\ ev = [kind |-> "Init", trigger |-> OnStart]
    /\ build = NoBuild

\* the embedding program dispatches OnStart once, as main.rs does, and runs
\* frames; the exploration stops starting slices after MaxSlices of them
NextLoops ==
    \/ ndispatch = 0 /\ Dispatch(OnStart)
    \/ FrameStart
    \/ PickTask
    \/ Len(log) < MaxSlices /\ BeginSlice
    \/ OpPushVar
    \/ OpPushConstant
    \/ OpPushUInt32
    \/ OpPushZero
    \/ OpSetLocal
    \/ OpPushLocal
    \/ OpDecLocal
    \/ OpGreaterThan
    \/ OpJumpIfFalse
    \/ OpJump
    \/ OpSetVar
    \/ OpChangeVar
    \/ OpCallProcedure
    \/ OpCallBuiltin
    \/ OpSleep
    \/ OpYield
    \/ OpReturnNested
    \/ OpReturnRoot
    \/ FrameEnd

SpecLoops == InitLoops /\ [][NextLoops]_vars

\* run_frame and run_until_yield are loops of one thread: a step that can be
\* taken is taken
SpecLoopsFair == SpecLoops /\ WF_vars(NextLoops)

\* Programs of counting tasks, built already: OnStart starts two or three
\* tasks of the counted loop, each of which changes variable v0 of target 0
\* by 1 and yields, TIMES times; global 1 holds TIMES and global 0 keeps a
\* copy of the value v0 starts with
CounterTables ==
    {[t \in Triggers |-> IF t = OnStart THEN handlers ELSE <<>>] :
       handlers \in {<<8, 8>>, <<8, 8, 8>>}}

CounterStarts == {DefaultValue, Num(1), Str(<<"2">>)}

InitCounters ==
    /\ triggers \in CounterTables
    /\ added = triggers
    /\ \E times \in RepeatTimes, start \in CounterStarts :
          /\ global_vars = <<start, times>>
          /\ targets = <<<<start>>>>
    /\ task_queue = <<>>
    /\ sleepers = <<>>
    /\ cur = NoTask
    /\ pc = "idle"
    /\ now = 0
    /\ frame_start = 0
    /\ next_priority = 0
    /\ born = <<>>
    /\ ndispatch = 0
    /\ frame = 0
    /\ log = <<>>
    /\ ev = [kind |-> "Init", trigger |-> OnStart]
    /\ build = NoBuild

\* the embedding program dispatches OnStart once and runs frames until every
\* task has completed
NextCounters ==
    \/ ndispatch = 0 /\ Dispatch(OnStart)
    \/ FrameStart
    \/ PickTask
    \/ BeginSlice
    \/ OpPushVar
    \/ OpPushConstant
    \/ OpPushZero
    \/ OpSetLocal
    \/ OpPushLocal
    \/ OpDecLocal
    \/ OpGreaterThan
    \/ OpJumpIfFalse
    \/ OpJump
    \/ OpChangeVar
    \/ OpYield
    \/ OpReturnRoot
    \/ FrameEnd

SpecCounters == InitCounters /\ [][NextCounters]_vars

\* The variable pools alone: a Program with NumGlobals globals and NumTargets
\* targets of NumTargetVars variables each, whose read_var, set_var and
\* with_var are called with every target id and variable id, in and out of
\* range
VarValues == {DefaultValue, Str(<<"1">>)}

InitVars ==
    /\ global_vars \in [1..NumGlobals -> VarValues]
    /\ targets \in [1..NumTargets -> [1..NumTargetVars -> VarValues]]
    /\ triggers = [t \in Triggers |-> <<>>]
    /\ added = triggers
    /\ task_queue = <<>>
    /\ sleepers = <<>>
    /\ cur = NoTask
    /\ pc = "idle"
    /\ now = 0
    /\ frame_start = 0
    /\ next_priority = 0
    /\ born = <<>>
    /\ ndispatch = 0
    /\ frame = 0
    /\ log = <<>>
    /\ ev = [kind |-> "Init", trigger |-> OnStart]
    /\ build = NoBuild

\* the target ids and variable ids the calls are made with
TargetIds == 0..NumTargets
VarIds == 0..(NumGlobals + NumTargetVars)

VarCall(kind, target_id, id, val) ==
    /\ pc = "idle"
    /\ ~VarOutOfRange(global_vars, targets, target_id, id)
    /\ UNCHANGED build
    /\ ev' = [kind |-> kind, trigger |-> OnStart,
              target_id |-> target_id, id |-> id, val |-> val]
    /\ UNCHANGED <<triggers, added, task_queue, sleepers, cur, pc, now, frameVars,
                   born, ndispatch, frame, log>>

CallReadVar(target_id, id) ==
    /\ VarCall("read_var", target_id, id, read_var(global_vars, targets, target_id, id))
    /\ UNCHANGED <<global_vars, targets>>

CallSetVar(target_id, id, val) ==
    /\ VarCall("set_var", target_id, id, val)
    /\ LET r == set_var(global_vars, targets, target_id, id, val)
       IN global_vars' = r.g /\ targets' = r.tg

\* with_var with the callback of ChangeVar for the offset 1
CallWithVar(target_id, id) ==
    /\ VarCall("with_var", target_id, id, Num(1))
    /\ cast_number(read_var(global_vars, targets, target_id, id)) < MaxVarValue
    /\ LET var == with_var_arg(global_vars, targets, target_id, id)
           r == with_var(global_vars, targets, target_id, id,
                         Num(cast_number(var) + 1))
       IN global_vars' = r.g /\ targets' = r.tg

\* the index is out of range: the call panics
CallVarPanics(target_id, id) ==
    /\ pc = "idle"
    /\ VarOutOfRange(global_vars, targets, target_id, id)
    /\ pc' = "panic"
    /\ UNCHANGED build
    /\ ev' = [kind |-> "panic", trigger |-> OnStart,
              target_id |-> target_id, id |-> id, val |-> DefaultValue]
    /\ UNCHANGED <<triggers, added, global_vars, targets, task_queue, sleepers, cur,
                   now, frameVars, born, ndispatch, frame, log>>

NextVars ==
    \E target_id \in TargetIds, id \in VarIds :
        \/ CallReadVar(target_id, id)
        \/ \E val \in VarValues : CallSetVar(target_id, id, val)
        \/ CallWithVar(target_id, id)
        \/ CallVarPanics(target_id, id)

SpecVars == InitVars /\ [][NextVars]_vars

(***************************************************************************)
(* ScratchProject::compile: its threads and the program it builds.         *)
(***************************************************************************)
\* the trigger a script thread returns, <<>> for None; the explored projects
\* have one event, with index 0
trigger_of(script) ==
    CASE script.start_condition = "FlagClicked" -> <<OnStart>>
      [] script.start_condition = "BroadcastReceived" -> <<Event(0)>>
      [] OTHER -> <<>>

\* the join handles in the order the main thread joins them: target order,
\* then script order
RECURSIVE JoinOrder(_, _)
JoinOrder(tgts, target_id) ==
    IF Len(tgts) = 0 THEN <<>>
    ELSE [s \in 1..Len(Head(tgts).scripts) |->
            [target_id |-> target_id, script_id |-> s - 1]]
         \o JoinOrder(Tail(tgts), target_id + 1)

\* the ids of the targets of the project under compilation
BuildTargets == 0..(Len(build.project.targets) - 1)

\* the state before compile is called on one of projects
InitProjects(projects) ==
    /\ \E project \in projects :
         build = [phase |-> "start",
                  project |-> project,
                  text_constants |-> <<>>,
                  runs |-> <<>>,
                  project_ctx |-> ProjectContext_new(<<>>, <<>>),
                  target_ctx |-> [t \in 1..Len(project.targets) |-> <<>>],
                  compiled |-> [t \in 1..Len(project.targets) |->
                                 [s \in 1..Len(project.targets[t].scripts) |-> <<>>]],
                  constants |-> <<>>,
                  procedures |-> <<>>]
    /\ global_vars = <<>>
    /\ targets = <<>>
    /\ triggers = [t \in Triggers |-> <<>>]
    /\ added = triggers
    /\ task_queue = <<>>
    /\ sleepers = <<>>
    /\ cur = NoTask
    /\ pc = "idle"
    /\ now = 0
    /\ frame_start = 0
    /\ next_priority = 0
    /\ born = <<>>
    /\ ndispatch = 0
    /\ frame = 0
    /\ log = <<>>
    /\ ev = [kind |-> "Init", trigger |-> OnStart]

InitCompile == InitProjects(Projects)

\* a step of compile: the scheduler and its history are left alone
CompileStep(kind) ==
    /\ ev' = [kind |-> kind, trigger |-> OnStart]
    /\ UNCHANGED <<task_queue, sleepers, cur, pc, now, frameVars, born, ndispatch,
                   frame, log>>

\* compile calls find_text_constants; runs keeps the result of every call
FindTextConstants ==
    /\ build.phase = "start"
    /\ build' = [build EXCEPT
                   !.phase = "consts",
                   !.text_constants = find_text_constants(build.project),
                   !.runs = Append(@, find_text_constants(build.project))]
    /\ CompileStep("find_text_constants")
    /\ UNCHANGED <<triggers, added, global_vars, targets>>

\* find_text_constants called once more on the same project, by a caller
\* that goes no further
FindTextConstantsAgain ==
    /\ build.phase = "consts"
    /\ Len(build.runs) = 1
    /\ build' = [build EXCEPT
                   !.phase = "twice",
                   !.runs = Append(@, find_text_constants(build.project))]
    /\ CompileStep("find_text_constants")
    /\ UNCHANGED <<triggers, added, global_vars, targets>>

\* the project context, the global cells and the target scopes: each
\* enumerates the map it is built from
NewProjectContext ==
    /\ build.phase = "consts"
    /\ build' = [build EXCEPT
                   !.phase = "spawned",
                   !.project_ctx = ProjectContext_new(build.project.global_vars,
                                                      build.text_constants)]
    /\ global_vars' = [i \in 1..Len(build.project.global_vars) |->
                         initialize(Variable(build.project.global_vars[i]))]
    /\ targets' = [t \in 1..Len(build.project.targets) |->
                     [i \in 1..Len(build.project.targets[t].variables) |->
                        initialize(Variable(build.project.targets[t].variables[i]))]]
    /\ CompileStep("ProjectContext::new")
    /\ UNCHANGED <<triggers, added>>

\* the keys of initial_vars: the clone of the globals extended with the
\* variables of the target
InitialVars(target_id) ==
    {build.project.global_vars[i] : i \in 1..Len(build.project.global_vars)} \cup
    {build.project.targets[target_id + 1].variables[i] :
       i \in 1..Len(build.project.targets[target_id + 1].variables)}

\* the thread of a target builds initial_vars, a new map with an enumeration
\* order of its own, and from it the context of the target
TargetThread(target_id) ==
    /\ build.phase \in {"spawned", "program"}
    /\ Len(build.target_ctx[target_id + 1]) = 0
    /\ \E initial_vars \in Orders(InitialVars(target_id)) :
         build' = [build EXCEPT
                     !.target_ctx[target_id + 1] =
                        <<TargetCodegenContext_new(build.project_ctx, initial_vars)>>]
    /\ CompileStep("TargetCodegenContext::new")
    /\ UNCHANGED <<triggers, added, global_vars, targets>>

\* the ids of the scripts of a target of the project under compilation
BuildScripts(target_id) == 0..(Len(build.project.targets[target_id + 1].scripts) - 1)

\* the thread of a script compiles it with the context of its target
ScriptThread(target_id, script_id) ==
    /\ build.phase \in {"spawned", "program"}
    /\ Len(build.target_ctx[target_id + 1]) = 1
    /\ Len(build.compiled[target_id + 1][script_id + 1]) = 0
    /\ build' = [build EXCEPT
                   !.compiled[target_id + 1][script_id + 1] =
                      <<compile_script(
                          build.target_ctx[target_id + 1][1],
                          build.project.targets[target_id + 1].scripts[script_id + 1])>>]
    /\ CompileStep("compile")
    /\ UNCHANGED <<triggers, added, global_vars, targets>>

\* Program::new with the text constants as String values
NewProgram ==
    /\ build.phase = "spawned"
    /\ build' = [build EXCEPT
                   !.phase = "program",
                   !.constants = [i \in 1..Len(build.text_constants) |->
                                    Str(<<build.text_constants[i]>>)]]
    /\ CompileStep("Program::new")
    /\ UNCHANGED <<triggers, added, global_vars, targets>>

\* the main thread joining the handles from the last to the first
Joining_LastFirst ==
    JoinOrder(build.project.targets, 0)
        [Len(JoinOrder(build.project.targets, 0)) - Len(build.procedures)]

\* the handle the main thread joins next, and what its thread returned
Joining == JoinOrder(build.project.targets, 0)[Len(build.procedures) + 1]
Joined == build.compiled[Joining.target_id + 1][Joining.script_id + 1]

\* register never finding the cell full
register_panics_Never(proc) == FALSE

\* OnceCell::set fails on a cell that holds an id already, and expect panics
register_panics(proc) == proc.ident # -1

\* Program::register on a procedure whose cell is empty: the id is the length
\* of the pool
register(pool, proc) == Append(pool, [proc EXCEPT !.ident = Len(pool)])

\* the main thread joins the threads in target order, then script order,
\* registers the procedure of each and adds its trigger
Register ==
    /\ build.phase = "program"
    /\ Len(build.procedures) < Len(JoinOrder(build.project.targets, 0))
    /\ Len(Joined) = 1
    /\ Joined[1].panic = ""
    /\ LET handle == Len(build.procedures)
           script == build.project.targets[Joining.target_id + 1]
                          .scripts[Joining.script_id + 1]
           proc == [ident |-> -1,
                    target_id |-> Joining.target_id,
                    script_id |-> Joining.script_id,
                    param_count |-> 0,
                    nlocals |-> Len(Joined[1].locals),
                    warp |-> script.warp,
                    bytecode |-> Joined[1].data,
                    texts |-> Joined[1].texts]
       IN /\ build' = [build EXCEPT
                         !.phase = IF handle + 1 = Len(JoinOrder(build.project.targets, 0))
                                   THEN "done" ELSE @,
                         !.procedures = register(@, proc)]
          /\ IF Len(trigger_of(script)) = 1
             THEN /\ triggers' = add_trigger(triggers, handle, trigger_of(script)[1])
                  /\ added' = add_trigger(added, handle, trigger_of(script)[1])
             ELSE UNCHANGED <<triggers, added>>
    /\ CompileStep("register")
    /\ UNCHANGED <<global_vars, targets>>

\* the thread joined has panicked: compile panics
JoinPanics ==
    /\ build.phase = "program"
    /\ Len(build.procedures) < Len(JoinOrder(build.project.targets, 0))
    /\ Len(Joined) = 1
    /\ Joined[1].panic # ""
    /\ build' = [build EXCEPT !.phase = "panic"]
    /\ CompileStep("panic")
    /\ UNCHANGED <<triggers, added, global_vars, targets>>

NextCompile ==
    \/ FindTextConstants
    \/ FindTextConstantsAgain
    \/ NewProjectContext
    \/ \E target_id \in BuildTargets : TargetThread(target_id)
    \/ \E target_id \in BuildTargets :
         \E script_id \in BuildScripts(target_id) : ScriptThread(target_id, script_id)
    \/ NewProgram
    \/ Register
    \/ JoinPanics

SpecCompile == InitCompile /\ [][NextCompile]_vars

\* projects whose targets have up to MaxTargetScripts scripts with the three
\* start conditions; the script that stores in "a" does not compile for the
\* stage, which has no such variable
ThreadScripts ==
    {Script(<<Say(TextBlock("y"))>>),
     Script(<<SetVariableTo("a", TextBlock("x"))>>),
     ScriptOn("BroadcastReceived", FALSE,
              <<Repeat(VarBlock("g1"), <<ChangeVariableBy("g1", TextBlock("y"))>>)>>),
     ScriptOn("ProcedureCalled", TRUE, <<Forever(<<>>)>>)}

ThreadProjects ==
    {[global_vars |-> <<"g1">>,
      targets |-> <<Target(<<>>, s0), Target(<<"a">>, s1)>>] :
        s0, s1 \in UNION {[1..n -> ThreadScripts] : n \in 1..MaxTargetScripts}}

InitThreads == InitProjects(ThreadProjects)

SpecThreads == InitThreads /\ [][NextCompile]_vars

(***************************************************************************)
(* ScriptCompiler::compile on its own, one block of the script at a time,  *)
(* over block trees built from the seed lowerings.                         *)
(***************************************************************************)
\* statements without a substack
LowerLeaves ==
    {Say(TextBlock("y")),
     Say(Join(TextBlock("x"), VarBlock("g1"), TRUE)),
     SetVariableTo("g1", TextBlock("x")),
     ChangeVariableBy("g1", TextBlock("y")),
     Wait(TextBlock("x"))}

\* the loops around a body, and the loops of depth one and two
LoopsAround(bodies) ==
    {Forever(b) : b \in bodies} \cup {Repeat(VarBlock("g1"), b) : b \in bodies}

LowerLoops == LoopsAround({<<>>} \cup {<<l>> : l \in LowerLeaves})

\* blocks of looks_say, an opcode with a runtime callback only, that ingest
\* does not make: two inputs that the map enumerates out of str order, and a
\* field
RuntimeOnlyLeaves ==
    {Block("looks_say", "",
           <<Input("VALUE", <<TextBlock("x")>>), Input("MESSAGE", <<VarBlock("g1")>>)>>),
     Block("looks_say", "g1", <<Input("MESSAGE", <<TextBlock("x")>>)>>),
     Say(Join(TextBlock("x"), VarBlock("g1"), FALSE))}

LowerStatements ==
    LowerLeaves \cup LowerLoops \cup LoopsAround({<<l>> : l \in LowerLoops})
        \cup RuntimeOnlyLeaves

\* the scripts lowered: up to MaxLowerBlocks statements, with and without warp
LowerScripts ==
    {ScriptOn("ProcedureCalled", warp, blocks) :
       warp \in BOOLEAN,
       blocks \in UNION {[1..n -> LowerStatements] : n \in 0..MaxLowerBlocks}}

\* the context of a target that has the one global g1 and the texts x and y
LowerContext ==
    TargetCodegenContext_new(ProjectContext_new(<<"g1">>, <<"x", "y">>), <<>>)

InitLower ==
    /\ \E script \in LowerScripts :
         build = [phase |-> "lower",
                  ctx |-> LowerContext,
                  script |-> script,
                  c |-> ScriptCompiler_new(script.warp, 0),
                  rest |-> script.blocks]
    /\ global_vars = <<>>
    /\ targets = <<>>
    /\ triggers = [t \in Triggers |-> <<>>]
    /\ added = triggers
    /\ task_queue = <<>>
    /\ sleepers = <<>>
    /\ cur = NoTask
    /\ pc = "idle"
    /\ now = 0
    /\ frame_start = 0
    /\ next_priority = 0
    /\ born = <<>>
    /\ ndispatch = 0
    /\ frame = 0
    /\ log = <<>>
    /\ ev = [kind |-> "Init", trigger |-> OnStart]

\* an iteration of the loop of compile_substack over the blocks of the
\* script; a panic of the lowering ends the compilation
LowerBlock ==
    /\ build.phase = "lower"
    /\ Len(build.rest) > 0
    /\ build' = [build EXCEPT
                   !.phase = IF compile_block(build.ctx, build.c,
                                              Head(build.rest)).panic # ""
                             THEN "panic" ELSE @,
                   !.c = compile_block(build.ctx, @, Head(build.rest)),
                   !.rest = Tail(@)]
    /\ CompileStep("compile_block")
    /\ UNCHANGED <<triggers, added, global_vars, targets>>

\* the loop of compile_substack is over: the Yield of an empty substack
EndSubstack ==
    /\ build.phase = "lower"
    /\ Len(build.rest) = 0
    /\ build' = [build EXCEPT
                   !.phase = "substack",
                   !.c = IF Len(build.script.blocks) = 0 THEN build_yield(@) ELSE @]
    /\ CompileStep("compile_substack")
    /\ UNCHANGED <<triggers, added, global_vars, targets>>

\* compile writes the Return
WriteReturn ==
    /\ build.phase = "substack"
    /\ build' = [build EXCEPT !.phase = "compiled",
                              !.c = write(@, <<Op("Return")>>)]
    /\ CompileStep("compile")
    /\ UNCHANGED <<triggers, added, global_vars, targets>>

NextLower == LowerBlock \/ EndSubstack \/ WriteReturn

SpecLower == InitLower /\ [][NextLower]_vars

\* no program has been built and nothing runs: the state of the scheduler
\* variables while a part of the interpreter is exercised on its own
NoProgram ==
    /\ global_vars = <<>>
    /\ targets = <<>>
    /\ triggers = [t \in Triggers |-> <<>>]
    /\ added = triggers
    /\ task_queue = <<>>
    /\ sleepers = <<>>
    /\ cur = NoTask
    /\ pc = "idle"
    /\ now = 0
    /\ frame_start = 0
    /\ next_priority = 0
    /\ born = <<>>
    /\ ndispatch = 0
    /\ frame = 0
    /\ log = <<>>
    /\ ev = [kind |-> "Init", trigger |-> OnStart]

(***************************************************************************)
(* Program::register on its own: the embedding program creates up to       *)
(* MaxInstances procedure values and registers them, in any order and any  *)
(* number of times.  ident[i] is the OnceCell of instance i, -1 while it   *)
(* is empty; pool is Program::procedures, whose elements share the cell.   *)
(***************************************************************************)
InitRegister ==
    /\ build = [phase |-> "register",
                ident |-> [i \in 1..MaxInstances |-> -1],
                pool |-> <<>>,
                last |-> 0]
    /\ NoProgram

\* Program::register called with instance inst
ProgramRegister(inst) ==
    /\ build.phase = "register"
    /\ LET proc == [inst |-> inst, ident |-> build.ident[inst]]
       IN IF register_panics(proc)
          THEN build' = [build EXCEPT !.phase = "panic", !.last = inst]
          ELSE build' = [build EXCEPT
                           !.pool = register(@, proc),
                           !.ident[inst] = Len(build.pool),
                           !.last = inst]
    /\ CompileStep("register")
    /\ UNCHANGED <<triggers, added, global_vars, targets>>

NextRegister == \E inst \in 1..MaxInstances : ProgramRegister(inst)

SpecRegister == InitRegister /\ [][NextRegister]_vars

(***************************************************************************)
(* The casts of Value on their own: a value is cast, and the result cast   *)
(* again, up to MaxCasts times.  trail holds the values, ops the casts.    *)
(***************************************************************************)
CastInputs ==
    {Bool(TRUE), Bool(FALSE), Num(0), Num(1), Num(2),
     Str(<<>>), Str(<<"0">>), Str(<<"1">>), Str(<<"t", "r", "u", "e">>),
     Str(<<"f", "a", "l", "s", "e">>)}

InitCasts ==
    /\ \E val \in CastInputs : build = [phase |-> "cast", trail |-> <<val>>, ops |-> <<>>]
    /\ NoProgram

\* one of the casts is applied to the last value
Cast(op, val) ==
    /\ build.phase = "cast"
    /\ Len(build.ops) < MaxCasts
    /\ build' = [build EXCEPT !.trail = Append(@, val), !.ops = Append(@, op)]
    /\ CompileStep(op)
    /\ UNCHANGED <<triggers, added, global_vars, targets>>

CastString == Cast("cast_string", Str(cast_string(Last(build.trail))))
CastNumber == Cast("cast_number", Num(cast_number(Last(build.trail))))
CastBoolean == Cast("cast_boolean", Bool(cast_boolean(Last(build.trail))))

NextCasts == CastString \/ CastNumber \/ CastBoolean

SpecCasts == InitCasts /\ [][NextCasts]_vars

(***************************************************************************)
(* Reading the history.                                                    *)
(***************************************************************************)
TaskIds == 1..Len(born)

\* the positions in the log of the slices of task id
SlicesOf(id) == {i \in 1..Len(log) : log[i].id = id}

\* the first slice of a task that has run
FirstSlice(id) == CHOOSE i \in SlicesOf(id) : \A k \in SlicesOf(id) : i <= k

\* slices i < j are consecutive slices of one task
Consecutive(i, j) ==
    /\ i < j
    /\ log[i].id = log[j].id
    /\ \A k \in (i + 1)..(j - 1) : log[k].id # log[i].id

\* the task has never suspended with a positive Sleep
YieldsOnly(id) == \A i \in SlicesOf(id) : log[i].end = "Sleep" => log[i].d = 0

\* the task was created before slice i ended and had not completed before it
InRotation(id, i) ==
    /\ born[id].at <= i
    /\ \A k \in SlicesOf(id) : k < i => log[k].end # "Return"

(***************************************************************************)
(* Program::dispatch and add_trigger.                                      *)
(***************************************************************************)
\* the procedures add_trigger was called with for trigger, in call order
Registered(trigger) == added[trigger]

\* task is as Task::new(proc) leaves it
Fresh(task, proc) ==
    /\ task.procedure = proc
    /\ task.location = 0
    /\ task.stack = <<>>
    /\ Len(task.scopes) = 1
    /\ Len(task.scopes[1]) = Proc(proc).nlocals
    /\ \A k \in 1..Len(task.scopes[1]) : task.scopes[1][k] = DefaultValue
    /\ ~task.complete

\* this step is a call of Program::dispatch(trigger) that returns, made by the
\* embedding program or by a task executing DispatchEvent
DispatchStep(trigger) ==
    /\ pc' # "panic"
    /\ \/ ev'.kind = "Dispatch" /\ ev'.trigger = trigger
       \/ /\ pc = "slice"
          /\ cur.location < Len(Code(cur))
          /\ CurOp = "DispatchEvent"
          /\ trigger = Event(Imm1)

\* C1: dispatch(trigger) appends to the ready queue one fresh task per
\* procedure registered for the trigger, in add_trigger order, behind the
\* tasks already queued; with no handler the queue is unchanged
C1_DispatchAppendsFreshTasks ==
    [][\A trigger \in Triggers :
          DispatchStep(trigger) =>
              LET regs == Registered(trigger)
                  n == Len(task_queue)
              IN /\ Len(task_queue') = n + Len(regs)
                 /\ \A i \in 1..n : task_queue'[i] = task_queue[i]
                 /\ \A j \in 1..Len(regs) : Fresh(task_queue'[n + j], regs[j])
                 /\ Len(regs) = 0 => task_queue' = task_queue]_vars

\* a dispatch has just queued two tasks for two different procedures
C1_Witness ==
    /\ ev.kind = "Dispatch"
    /\ Len(task_queue) = 2
    /\ born[task_queue[1].id].batch = born[task_queue[2].id].batch
    /\ task_queue[1].procedure # task_queue[2].procedure

(***************************************************************************)
(* Suspension points.                                                      *)
(***************************************************************************)
\* the opcodes that end a time slice
Suspending == {"Yield", "Sleep", "DispatchEvent", "CallBuiltin"}

\* this step executes one instruction of the running task without panicking
OpcodeStep == pc = "slice" /\ pc' # "panic" /\ cur.location < Len(Code(cur))

\* C2: a time slice ends exactly when the task executes Yield, Sleep,
\* DispatchEvent or CallBuiltin, or Return from its root frame; after any other
\* opcode the same task goes on in the same slice
C2_SliceEndsAtSuspensionPoints ==
    [][OpcodeStep =>
          LET ends == CurOp \in Suspending
                        \/ (CurOp = "Return" /\ Len(cur.scopes) = 1)
          IN IF ends
             THEN pc' = "frame" /\ cur' = NoTask
             ELSE /\ pc' = "slice"
                  /\ cur'.id = cur.id
                  /\ log' = log
                  /\ task_queue' = task_queue /\ sleepers' = sleepers]_vars

\* a task has returned from a nested frame and is still in its slice
C2_Witness ==
    /\ pc = "slice"
    /\ cur.procedure = 3
    /\ cur.location = 27
    /\ Len(cur.scopes) = 1

(***************************************************************************)
(* Waking sleepers and frame priorities.                                   *)
(***************************************************************************)
\* C3: when a frame has woken its sleepers, no sleeper whose wake time the
\* clock has reached is left in the heap, and the woken tasks stand in the
\* ready queue in nondecreasing wake time order
C3_DueSleepersWoken ==
    ev.kind = "FrameStart" =>
        /\ \A i \in 1..Len(sleepers) : sleepers[i].wake_time > now
        /\ \A i, j \in 1..Len(task_queue) :
               (i < j /\ SlicesOf(task_queue[i].id) # {}
                      /\ SlicesOf(task_queue[j].id) # {})
                   => task_queue[i].wake_time <= task_queue[j].wake_time

\* the slices begun in the current frame
SlicesInFrame == {i \in 1..Len(log) : log[i].frame = frame}

\* the priority of the task picked last in the current frame: frame_start plus
\* one step per task picked before it
FramePriority(picked) == frame_start + (picked - 1) * PriorityStep

\* C4: the k-th task picked in a frame gets wake_time frame_start + k steps,
\* and a task that suspends without Sleep goes to the heap with that wake time
C4_PriorityCarriedToHeap ==
    /\ pc = "picked" =>
           cur.wake_time = FramePriority(Cardinality(SlicesInFrame) + 1)
    /\ (pc = "frame" /\ ev.kind = "Op" /\ Len(log) > 0
          /\ Last(log).end \in {"Yield", "DispatchEvent", "CallBuiltin"}) =>
           \A i \in 1..Len(sleepers) :
               sleepers[i].id = Last(log).id =>
                   sleepers[i].wake_time = FramePriority(Cardinality(SlicesInFrame))

(***************************************************************************)
(* Rotation and first slices.                                              *)
(***************************************************************************)
\* C5: among the tasks that never suspend with a positive Sleep, between two
\* consecutive slices of one task every other such task gets exactly one
\* slice (so that every round runs the tasks in one order)
C5_StrictRotation ==
    \A i, j \in 1..Len(log) :
        Consecutive(i, j) /\ YieldsOnly(log[i].id) =>
            \A b \in TaskIds :
                b # log[i].id /\ YieldsOnly(b) /\ InRotation(b, i) =>
                    Cardinality({k \in SlicesOf(b) : i < k /\ k < j}) = 1

\* the tasks created by the dispatch call that created task a
Batch(a) == {b \in TaskIds : born[b].batch = born[a].batch}

\* how many tasks of the batch of a had their first slice no later than a
Rank(a) ==
    Cardinality({b \in Batch(a) :
                    SlicesOf(b) # {} /\ FirstSlice(b) <= FirstSlice(a)})

\* C6: the tasks one dispatch call created get their first slices in the
\* order in which their procedures were registered for the trigger
C6_FirstSlicesInRegistrationOrder ==
    \A a \in TaskIds :
        SlicesOf(a) # {} =>
            /\ log[FirstSlice(a)].proc = Registered(born[a].trigger)[Rank(a)]
            /\ \A b \in Batch(a) :
                   b < a => SlicesOf(b) # {} /\ FirstSlice(b) < FirstSlice(a)

\* two tasks of one dispatch, for different procedures, have both run
C6_Witness ==
    \E a, b \in TaskIds :
        /\ a < b
        /\ born[a].batch = born[b].batch
        /\ SlicesOf(a) # {} /\ SlicesOf(b) # {}
        /\ log[FirstSlice(a)].proc # log[FirstSlice(b)].proc

(***************************************************************************)
(* DispatchEvent.                                                          *)
(***************************************************************************)
\* the tasks created by a DispatchEvent
Handlers == {h \in TaskIds : born[h].parent # 0}

\* the tasks created by the DispatchEvent that ended slice i
HandlersOf(i) == {h \in Handlers : born[h].at = i}

\* C7: the handlers of a DispatchEvent stand behind the tasks already queued;
\* none runs before the slice of the dispatching task has ended; each has its
\* first slice before the dispatching task has its next one; and handlers of
\* two dispatches of one frame run in the order of the dispatches
C7_HandlersRunAfterDispatcher ==
    /\ (ev.kind = "Op" /\ pc = "frame" /\ Len(log) > 0
          /\ Last(log).end = "DispatchEvent") =>
           LET n == Cardinality(HandlersOf(Len(log)))
               q == Len(task_queue)
           IN /\ n <= q
              /\ \A k \in 1..q :
                     task_queue[k].id \in HandlersOf(Len(log)) <=> k > q - n
    /\ \A h \in Handlers :
           /\ \A k \in SlicesOf(h) :
                  k > born[h].at /\ log[born[h].at].end = "DispatchEvent"
           /\ \A j \in SlicesOf(born[h].parent) :
                  j > born[h].at =>
                      \E k \in SlicesOf(h) : born[h].at < k /\ k < j
    /\ \A g, h \in Handlers :
           (/\ born[g].at < born[h].at
            /\ log[born[g].at].frame = log[born[h].at].frame
            /\ SlicesOf(h) # {}) =>
               SlicesOf(g) # {} /\ FirstSlice(g) < FirstSlice(h)

\* two tasks have dispatched an event in one frame, the handlers of both have
\* run, and the first dispatching task has run again
C7_Witness ==
    \E g, h \in Handlers :
        /\ born[g].at < born[h].at
        /\ log[born[g].at].frame = log[born[h].at].frame
        /\ SlicesOf(g) # {} /\ SlicesOf(h) # {}
        /\ \E j \in SlicesOf(born[g].parent) : j > FirstSlice(g)

(***************************************************************************)
(* Sleep.                                                                  *)
(***************************************************************************)
\* C8: a task that executes Sleep with duration d at clock reading t goes to
\* the heap with wake_time t + d, and executes nothing more before the clock
\* has reached t + d
C8_SleepHoldsTaskUntilDue ==
    /\ (ev.kind = "Op" /\ pc = "frame" /\ Len(log) > 0
          /\ Last(log).end = "Sleep") =>
           \E i \in 1..Len(sleepers) :
               /\ sleepers[i].id = Last(log).id
               /\ sleepers[i].wake_time = now + Last(log).d
    /\ pc \in {"picked", "slice"} =>
           \A i \in SlicesOf(cur.id) :
               (log[i].end = "Sleep" /\ i < Len(log)) => log[i].due <= now

\* a task that slept for a positive duration is running again
C8_Witness ==
    /\ pc = "slice"
    /\ \E i \in SlicesOf(cur.id) : log[i].end = "Sleep" /\ log[i].d > 0

\* slices i and j, of two tasks, ended with Sleep in one frame
SleptTogether(i, j) ==
    /\ log[i].end = "Sleep" /\ log[j].end = "Sleep"
    /\ log[i].id # log[j].id
    /\ log[i].frame = log[j].frame

\* the task put to sleep by slice j resumes before the one put to sleep by
\* slice i resumes, and the latter does not run before its sleep has elapsed
ResumesBefore(j, i) ==
    /\ \A k \in SlicesOf(log[i].id) :
           k > i => \E m \in SlicesOf(log[j].id) : j < m /\ m < k
    /\ (pc = "slice" /\ cur.id = log[i].id /\ Len(log) > i) => log[i].due <= now

\* C9 as stated: of two tasks that sleep in one frame, the one with the
\* shorter duration resumes first, and the other not before its duration has
\* elapsed
C9_ShorterSleepResumesFirst ==
    \A i, j \in 1..Len(log) :
        SleptTogether(i, j) /\ log[j].d < log[i].d => ResumesBefore(j, i)

\* C9: of two tasks that sleep in one frame, the one whose Sleep ends earlier
\* (clock reading at its Sleep plus duration) resumes first, and the other not
\* before its duration has elapsed
C9_EarlierWakeResumesFirst ==
    \A i, j \in 1..Len(log) :
        SleptTogether(i, j) /\ log[j].due < log[i].due => ResumesBefore(j, i)

\* two tasks slept in one frame and the one with the later wake time has
\* resumed
C9_Witness ==
    \E i, j \in 1..Len(log) :
        /\ SleptTogether(i, j)
        /\ log[j].due < log[i].due
        /\ \E k \in SlicesOf(log[i].id) : k > i

\* C10: a task that executes Sleep with duration 0 is not run again in the
\* frame of that Sleep, and it is run in the frame after it
C10_SleepZeroRunsNextFrame ==
    \A i \in 1..Len(log) :
        (log[i].end = "Sleep" /\ log[i].d = 0) =>
            /\ \A k \in SlicesOf(log[i].id) : k > i => log[k].frame > log[i].frame
            /\ (frame > log[i].frame + 1 \/ (frame = log[i].frame + 1 /\ pc = "idle"))
                   => \E k \in SlicesOf(log[i].id) : log[k].frame = log[i].frame + 1

(***************************************************************************)
(* Completion.                                                             *)
(***************************************************************************)
\* the tasks the program holds: queued, sleeping or running
Alive ==
    {task_queue[i].id : i \in 1..Len(task_queue)}
        \cup {sleepers[i].id : i \in 1..Len(sleepers)}
        \cup (IF pc \in {"picked", "slice"} THEN {cur.id} ELSE {})

\* this step is a Return executed with an empty operand stack
ReturnsFromRoot == OpcodeStep /\ CurOp = "Return" /\ cur.stack = <<>>

\* C11: a task completes, and is dropped by run_frame, exactly when it executes
\* Return with an empty operand stack (short of a panic, which ends every
\* task); no task the program holds is complete, and a task that has
\* completed gets no further slice
C11_CompleteOnlyByRootReturn ==
    [][/\ \A id \in Alive :
              (id \notin Alive' /\ pc' # "panic") => ReturnsFromRoot /\ cur.id = id
       /\ ReturnsFromRoot => cur.id \notin Alive'
       /\ \A i \in 1..Len(task_queue') : ~task_queue'[i].complete
       /\ \A i \in 1..Len(sleepers') : ~sleepers'[i].complete
       /\ pc' \in {"picked", "slice"} => ~cur'.complete
       /\ \A i, j \in 1..Len(log') :
              (i < j /\ log'[i].id = log'[j].id) => log'[i].end # "Return"]_vars

\* a task has completed while another task sleeps
C11_Witness ==
    /\ pc = "frame"
    /\ Len(log) > 0
    /\ Last(log).end = "Return"
    /\ Last(log).id \notin Alive
    /\ Len(sleepers) > 0

(***************************************************************************)
(* Procedure calls.                                                        *)
(***************************************************************************)
\* this step is a Return executed with the frame marker of a call on the stack
ReturnsFromCall ==
    OpcodeStep /\ CurOp = "Return" /\ cur.stack # <<>> /\ cur.calls # <<>>

\* the procedure the CallProcedure at offset at of procedure caller names
CalleeAt(caller, at) == Proc(caller).bytecode[at + 2].imm

\* C12: the Return of a callee takes the task back to the calling procedure, at
\* the offset after the immediate of the CallProcedure, with as many scopes as
\* before the call and the stack of before the call less the arguments
C12_CallReturnRoundTrip ==
    [][ReturnsFromCall =>
          LET c == Last(cur.calls)
              n == Proc(CalleeAt(c.procedure, c.at)).param_count
          IN /\ cur'.procedure = c.procedure
             /\ cur'.location = c.at + 2
             /\ Len(cur'.scopes) = Len(c.scopes)
             /\ cur'.stack = SubSeq(c.stack, 1, Len(c.stack) - n)]_vars

\* the task is back in procedure 5 from a call with two arguments, in which it
\* yielded, with the number it had pushed before the arguments on its stack
C12_Witness ==
    /\ pc = "slice"
    /\ cur.procedure = 5
    /\ cur.location = 8
    /\ Len(cur.stack) = 1
    /\ Top(cur).tag = "Number"
    /\ Top(cur).v = 7
    /\ Cardinality(SlicesOf(cur.id)) > 1

\* this step is a CallProcedure
CallsProcedure == OpcodeStep /\ CurOp = "CallProcedure"

\* C13: CallProcedure of a procedure with n parameters and L locals enters a
\* scope of L slots: slot i < n holds the (i+1)-th value popped, so that the
\* argument pushed last is local 0, and the slots from n on hold the default
C13_CallBuildsScope ==
    [][CallsProcedure =>
          LET n == Proc(Imm1).param_count
              L == Proc(Imm1).nlocals
              k == Len(cur.stack)
              scope == Last(cur'.scopes)
          IN /\ Len(cur'.scopes) = Len(cur.scopes) + 1
             /\ Len(scope) = L
             /\ \A i \in 0..(n - 1) : scope[i + 1] = cur.stack[k - i]
             /\ \A i \in n..(L - 1) : scope[i + 1] = DefaultValue]_vars

\* procedure 6 has just been called with "hi" pushed first and "1" pushed last
C13_Witness ==
    /\ pc = "slice"
    /\ cur.procedure = 6
    /\ cur.location = 0
    /\ Last(cur.scopes) = <<constants[2], constants[1], DefaultValue>>

\* the task has a scope for its root frame and one more per open call
ScopesMatchCalls(task) ==
    Len(task.scopes) >= 1 /\ Len(task.scopes) = 1 + Len(task.calls)

\* C14: every task, queued, sleeping or running, has one scope for its root
\* frame and one per CallProcedure that has not returned; a task that has
\* returned from its root frame is left with its root scope
C14_ScopesNonemptyAndCounted ==
    /\ \A i \in 1..Len(task_queue) : ScopesMatchCalls(task_queue[i])
    /\ \A i \in 1..Len(sleepers) : ScopesMatchCalls(sleepers[i])
    /\ pc \in {"picked", "slice"} => ScopesMatchCalls(cur)
    /\ \A i \in 1..Len(log) : log[i].end = "Return" => log[i].scopes = 1

\* a task sleeps inside a call while another task has returned from its root
C14_Witness ==
    /\ \E i \in 1..Len(sleepers) : Len(sleepers[i].scopes) = 2
    /\ \E i \in 1..Len(log) : log[i].end = "Return"

(***************************************************************************)
(* Variables.                                                              *)
(***************************************************************************)
\* the variable that target_id and id address: a global whatever target_id is,
\* or a variable of that target
Addressed(g, tg, target_id, id) ==
    IF id < Len(g) THEN g[id + 1] ELSE tg[target_id + 1][id - Len(g) + 1]

\* all variables but the addressed one are as before the step
OthersUnchanged(target_id, id) ==
    /\ \A k \in 1..Len(global_vars) :
           k # id + 1 => global_vars'[k] = global_vars[k]
    /\ \A t \in 1..Len(targets) : \A k \in 1..Len(targets[t]) :
           (id < Len(global_vars) \/ t # target_id + 1
                \/ k # id - Len(global_vars) + 1)
               => targets'[t][k] = targets[t][k]

\* C15: read_var, set_var and with_var address an id below the number of
\* globals as that global, whatever the target, and any other id as the
\* variable id - globals.len() of the target; after set_var(t, id, x) a
\* read_var(t, id) returns x, and no other variable has changed
C15_VariableAddressing ==
    [][/\ ev'.kind = "read_var" =>
              ev'.val = Addressed(global_vars, targets, ev'.target_id, ev'.id)
       /\ ev'.kind = "set_var" =>
              /\ Addressed(global_vars', targets', ev'.target_id, ev'.id) = ev'.val
              /\ read_var(global_vars', targets', ev'.target_id, ev'.id) = ev'.val
              /\ OthersUnchanged(ev'.target_id, ev'.id)
       /\ ev'.kind = "with_var" =>
              /\ Addressed(global_vars', targets', ev'.target_id, ev'.id)
                     = Num(cast_number(Addressed(global_vars, targets,
                                                 ev'.target_id, ev'.id)) + 1)
              /\ OthersUnchanged(ev'.target_id, ev'.id)]_vars

\* set_var has just set the second variable of the second target, which now
\* differs from the second variable of the first target
C15_Witness ==
    /\ ev.kind = "set_var"
    /\ ev.target_id = 1
    /\ ev.id = NumGlobals + 1
    /\ targets[2][2] = Str(<<"1">>)
    /\ targets[1][2] = DefaultValue

(***************************************************************************)
(* C16: PushConstant followed by SetVar.                                   *)
(***************************************************************************)
\* the running task executed PushConstant in the previous step and its next
\* instruction, at the following location, is SetVar
SetVarAfterPushConstant ==
    /\ pc = "slice"
    /\ ev.kind = "Op"
    /\ ev.op = "PushConstant"
    /\ cur.location = ev.at + 2
    /\ cur.location < Len(Code(cur))
    /\ CurOp = "SetVar"

\* C16: when a task of target t executes PushConstant i and then, as its
\* next instruction, SetVar v, then after the SetVar read_var(t, v) is
\* constants[i] and the operand stack of the task is what it was before the
\* PushConstant
C16_PushConstantSetVar ==
    [][(SetVarAfterPushConstant /\ pc' = "slice" /\ ev'.kind = "Op")
         => /\ ev'.op = "SetVar"
            /\ read_var(global_vars', targets', Proc(cur.procedure).target_id,
                        Imm1) = constants[Word(cur, ev.at + 1).imm + 1]
            /\ cur'.stack = ev.before
            /\ cur'.id = cur.id]_vars

\* a task has stored constant 1 in the variable of its target that follows
\* the globals, with a number left underneath on its operand stack
C16_Witness ==
    /\ pc = "slice"
    /\ ev.kind = "Op"
    /\ ev.op = "SetVar"
    /\ cur.procedure = 7
    /\ cur.location = 6
    /\ Len(cur.stack) = 1
    /\ targets[1][1] = constants[2]
    /\ targets[1][1] # InitTargets[1][1]

(***************************************************************************)
(* C17..C20: the handles the compiler emits.                               *)
(***************************************************************************)
\* the targets whose script has been compiled, and what its thread produced
Compiled == {t \in BuildTargets : Len(build.compiled[t + 1][1]) = 1}
CompiledScript(t) == build.compiled[t + 1][1][1]

\* the immediates of the opcodes named in ops, in bytecode order
ImmediatesOf(data, ops) ==
    LET at == SelectSeq([i \in 1..Len(data) |-> i],
                        LAMBDA i : data[i].op \in ops /\ i < Len(data))
    IN [j \in 1..Len(at) |-> data[at[j] + 1].imm]

VarHandles(t) == ImmediatesOf(CompiledScript(t).data, {"PushVar", "SetVar", "ChangeVar"})
ConstantHandles(t) == ImmediatesOf(CompiledScript(t).data, {"PushConstant"})

\* C17: every VarHandle h in the bytecode compiled for a script of target T
\* satisfies 0 <= h < number of globals + number of T's own variables, so the
\* variable lookup of the interpreter for target T is in range
C17_VarHandlesInRange ==
    \A t \in Compiled : \A j \in 1..Len(VarHandles(t)) :
        /\ 0 <= VarHandles(t)[j]
        /\ VarHandles(t)[j] < Len(global_vars) + Len(targets[t + 1])
        /\ ~VarOutOfRange(global_vars, targets, t, VarHandles(t)[j])

\* the sprite of a project with two globals and two variables of its own has
\* been compiled to a procedure that stores in its last variable and reads
\* a global
C17_Witness ==
    /\ build.phase = "done"
    /\ Len(global_vars) = 2
    /\ Len(targets[2]) = 2
    /\ \E j \in 1..Len(VarHandles(1)) : VarHandles(1)[j] = 3
    /\ \E j \in 1..Len(VarHandles(1)) : VarHandles(1)[j] < 2

\* the targets whose context has been built, and the context
WithContext == {t \in BuildTargets : Len(build.target_ctx[t + 1]) = 1}
Context(t) == build.target_ctx[t + 1][1]

\* C18: the handle of every variable in the context of target T addresses
\* the cell built from that variable: the globals have the indices of
\* Program.global_vars and T's own variables follow in the order of
\* TargetScope.vars, whatever the enumeration orders of the variable maps
C18_HandlesMatchPools ==
    \A t \in WithContext :
        /\ Len(Context(t).variables) = Len(global_vars) + Len(targets[t + 1])
        /\ \A h \in 0..(Len(Context(t).variables) - 1) :
             read_var(global_vars, targets, t, h) =
                 initialize(Variable(Context(t).variables[h + 1]))

\* the Program has been built
ProgramBuilt == build.phase \in {"program", "done", "panic"}

\* C19: no lowering fails for a text that the prepass did not collect, and
\* once the Program is built every ConstantHandle h in compiled bytecode
\* satisfies 0 <= h < constants.len(), constants[h] being the String of the
\* text primitive that was lowered to it
C19_ConstantHandlesInPool ==
    \A t \in Compiled :
        /\ CompiledScript(t).panic # "Text missing from context pool"
        /\ Len(ConstantHandles(t)) = Len(CompiledScript(t).texts)
        /\ ProgramBuilt =>
             \A j \in 1..Len(ConstantHandles(t)) :
                /\ 0 <= ConstantHandles(t)[j]
                /\ ConstantHandles(t)[j] < Len(build.constants)
                /\ build.constants[ConstantHandles(t)[j] + 1] =
                       Str(<<CompiledScript(t).texts[j]>>)

\* a sprite that says the join of two texts, nested in a reporter, has been
\* compiled and registered; the second constant of the pool is one of them
C19_Witness ==
    /\ build.phase = "done"
    /\ Len(build.constants) = 2
    /\ Len(ConstantHandles(1)) >= 2
    /\ \E j \in 1..Len(ConstantHandles(1)) : ConstantHandles(1)[j] = 1
    /\ \E i \in 1..Len(CompiledScript(1).data) :
          CompiledScript(1).data[i] = Imm(6)

\* the text primitives of a substack in the order the prepass meets them,
\* repetitions included
RECURSIVE TextsMet(_)
RECURSIVE TextsMetInInputs(_)
TextsMet(stack) ==
    IF Len(stack) = 0 THEN <<>>
    ELSE (IF Head(stack).opcode = "text" THEN <<Head(stack).field>> ELSE <<>>)
         \o TextsMetInInputs(Head(stack).inputs) \o TextsMet(Tail(stack))

TextsMetInInputs(inputs) ==
    IF Len(inputs) = 0 THEN <<>>
    ELSE TextsMet(Head(inputs).blocks) \o TextsMetInInputs(Tail(inputs))

RECURSIVE TextsMetInScripts(_)
TextsMetInScripts(scripts) ==
    IF Len(scripts) = 0 THEN <<>>
    ELSE TextsMet(Head(scripts).blocks) \o TextsMetInScripts(Tail(scripts))

Traversal == TextsMetInScripts(AllScripts(build.project.targets))

\* the position at which text is met first
FirstMet(text) ==
    CHOOSE i \in 1..Len(Traversal) :
        Traversal[i] = text /\ \A k \in 1..(i - 1) : Traversal[k] # text

\* C20: every run of find_text_constants on one project yields the same
\* sequence, which holds each text met in the traversal once, in the order
\* in which the texts are met first
C20_PrepassDeterministic ==
    \A r \in 1..Len(build.runs) :
        LET set == build.runs[r]
        IN /\ set = build.runs[1]
           /\ \A i, j \in 1..Len(set) : set[i] = set[j] => i = j
           /\ {set[i] : i \in 1..Len(set)} =
                  {Traversal[i] : i \in 1..Len(Traversal)}
           /\ \A i, j \in 1..Len(set) :
                  i < j => FirstMet(set[i]) < FirstMet(set[j])

\* the prepass has run twice on a project in which the text met first is
\* met again after another text
C20_Witness ==
    /\ build.phase = "twice"
    /\ Len(build.runs) = 2
    /\ Len(build.runs[2]) = 2
    /\ \E i, j, k \in 1..Len(Traversal) :
          i < j /\ j < k /\ Traversal[i] = Traversal[k] /\ Traversal[i] # Traversal[j]

(***************************************************************************)
(* The threads of compile.                                                 *)
(***************************************************************************)
\* the scripts of the project under compilation, as pairs of ids
ScriptPairs == UNION {{<<t, s>> : s \in BuildScripts(t)} : t \in BuildTargets}

\* the number of scripts that come before script s of target t in target
\* order, then script order
ScriptRank(t, s) ==
    Cardinality({q \in ScriptPairs : q[1] < t \/ (q[1] = t /\ q[2] < s)})

\* the script with the given rank
ScriptRanked(k) == CHOOSE q \in ScriptPairs : ScriptRank(q[1], q[2]) = k

SourceOf(q) == build.project.targets[q[1] + 1].scripts[q[2] + 1]

\* the ranks of the registered scripts that have the trigger, ascending
RECURSIVE HandlersUpTo(_, _)
HandlersUpTo(trigger, n) ==
    IF n = 0 THEN <<>>
    ELSE HandlersUpTo(trigger, n - 1) \o
         (IF trigger_of(SourceOf(ScriptRanked(n - 1))) = <<trigger>> THEN <<n - 1>> ELSE <<>>)

\* C21: whatever the interleaving and completion order of the target and
\* script threads, the procedure registered k-th is the script of rank k in
\* target order then script order, its id is k, its bytecode is the lowering
\* of that script under the context of its target, and every trigger lists
\* the registered handlers of its scripts in that order
C21_ScheduleIndependent ==
    build.phase \in {"program", "done", "panic"} =>
      /\ \A k \in 1..Len(build.procedures) :
           LET proc == build.procedures[k]
               q == ScriptRanked(k - 1)
           IN /\ proc.ident = k - 1
              /\ proc.target_id = q[1]
              /\ proc.script_id = q[2]
              /\ proc.bytecode =
                   compile_script(build.target_ctx[q[1] + 1][1], SourceOf(q)).data
      /\ \A trigger \in Triggers :
           triggers[trigger] = HandlersUpTo(trigger, Len(build.procedures))

\* the first script has been registered although the thread of the last
\* script finished before the thread of the second, and the stage has an
\* event handler behind a flag handler
C21_Witness ==
    /\ build.phase = "program"
    /\ Len(build.procedures) = 1
    /\ Cardinality(ScriptPairs) = 4
    /\ Len(build.compiled[1][2]) = 0
    /\ Len(build.compiled[2][2]) = 1
    /\ build.project.targets[1].scripts[2].start_condition = "BroadcastReceived"

(***************************************************************************)
(* The shape of compiled bytecode.                                         *)
(***************************************************************************)
\* the offsets of the instructions found decoding data from offset at with
\* the arities; Len(data) + 1 marks an immediate that is missing or a word
\* that is no opcode
RECURSIVE Decode(_, _)
Decode(data, at) ==
    IF at = Len(data) THEN {}
    ELSE IF at > Len(data) \/ data[at + 1].op = "imm" THEN {Len(data) + 1}
    ELSE {at} \cup Decode(data, at + 1 + Arity(data[at + 1].op))

\* the control-flow edges out of the instruction at an offset
Successors(data, at) ==
    LET op == data[at + 1].op
    IN CASE op = "Return" -> {}
         [] op = "Jump" -> {data[at + 2].imm}
         [] op \in {"JumpIfTrue", "JumpIfFalse"} -> {data[at + 2].imm, at + 2}
         [] OTHER -> {at + 1 + Arity(op)}

\* the offsets reachable from seen along the edges that stay on instructions
RECURSIVE Reach(_, _)
Reach(data, seen) ==
    LET more == UNION {Successors(data, at) : at \in seen \cap Decode(data, 0)}
    IN IF more \subseteq seen THEN seen ELSE Reach(data, seen \cup more)

Returns(data) == {at \in Decode(data, 0) : at < Len(data) /\ data[at + 1].op = "Return"}

\* decoding finds instructions only, one of them is a Return, and every path
\* from the entry stays on instructions
WellFormed(data) ==
    /\ Len(data) + 1 \notin Decode(data, 0)
    /\ Cardinality(Returns(data)) = 1
    /\ Reach(data, {0}) \subseteq Decode(data, 0)

\* the statement of C22 as the spec has it: the Return of every compiled
\* procedure is reachable from the entry
C22_ReturnReachable ==
    build.phase = "compiled" =>
      /\ WellFormed(build.c.data)
      /\ Returns(build.c.data) \subseteq Reach(build.c.data, {0})

\* C22: decoding the bytecode of a compiled procedure from offset 0 finds
\* exactly one Return, which is its last word, no path from the entry runs
\* off the end, and the Return is reachable from the entry exactly when no
\* statement at the top of the script is a control_forever
C22_OneReturnAtEnd ==
    build.phase = "compiled" =>
      /\ WellFormed(build.c.data)
      /\ Returns(build.c.data) = {Len(build.c.data) - 1}
      /\ (Returns(build.c.data) \subseteq Reach(build.c.data, {0}))
           <=> (\A i \in 1..Len(build.script.blocks) :
                  build.script.blocks[i].opcode # "control_forever")

\* a repeat around a forever, then a statement: the Return after them is
\* reachable through the exit of the repeat
C22_Witness ==
    /\ build.phase = "compiled"
    /\ Len(build.script.blocks) = 2
    /\ build.script.blocks[1].opcode = "control_repeat"
    /\ InputOf(build.script.blocks[1], "SUBSTACK").blocks = <<Forever(<<>>)>>
    /\ Returns(build.c.data) \subseteq Reach(build.c.data, {0})

\* the words a lowering wrote going from compiler state c to state d
Written(c, d) == SubSeq(d.data, Len(c.data) + 1, Len(d.data))

YieldCount(words) == Cardinality({i \in 1..Len(words) : words[i].op = "Yield"})

\* the loops around an empty body
EmptyLoops == {Forever(<<>>), Repeat(VarBlock("g1"), <<>>)}

\* compile_substack on the whole script gives what the blocks lowered one
\* after the other gave
LoweredInOrder ==
    (build.phase = "substack" /\ Len(build.script.blocks) > 0) =>
       build.c = compile_substack(build.ctx, ScriptCompiler_new(build.script.warp, 0),
                                  build.script.blocks)

\* the statement of C23 as the spec has it: an empty substack always gives
\* one Yield, at every point of a compilation, with and without warp
C23_EmptySubstackYields ==
    build.phase \in {"lower", "substack", "compiled"} =>
      /\ Written(build.c, compile_substack(build.ctx, build.c, <<>>)) = <<Op("Yield")>>
      /\ \A loop \in EmptyLoops :
           YieldCount(Written(build.c, compile_block(build.ctx, build.c, loop))) = 1
      /\ LoweredInOrder

\* C23: at every point of a compilation without warp, compile_substack on an
\* empty list writes exactly one Yield and the lowering of a loop around an
\* empty body has one Yield; with warp (suppress_yields) it writes nothing and
\* the loop has no Yield; on a non-empty list it writes the lowering of each
\* block in list order and nothing more
C23_EmptySubstackYieldsUnlessWarp ==
    build.phase \in {"lower", "substack", "compiled"} =>
      /\ Written(build.c, compile_substack(build.ctx, build.c, <<>>)) =
           (IF build.c.suppress_yields THEN <<>> ELSE <<Op("Yield")>>)
      /\ \A loop \in EmptyLoops :
           YieldCount(Written(build.c, compile_block(build.ctx, build.c, loop))) =
             (IF build.c.suppress_yields THEN 0 ELSE 1)
      /\ LoweredInOrder

\* a script without warp whose two statements are loops, the second around
\* an empty body: its substack is lowered, and the body of the second loop
\* is the one Yield
C23_Witness ==
    /\ build.phase = "substack"
    /\ ~build.script.warp
    /\ Len(build.script.blocks) = 2
    /\ build.script.blocks[1].opcode = "control_repeat"
    /\ build.script.blocks[2] = Forever(<<>>)
    /\ Written(compile_block(build.ctx, ScriptCompiler_new(FALSE, 0), build.script.blocks[1]),
               build.c)
         = <<Op("Yield"), Op("Jump"),
             Imm(Len(build.c.data) - 3)>>

\* the data_setvariableto and data_changevariableby statements in a substack,
\* the bodies of its loops included
RECURSIVE StoreCount(_)
StoreCount(blocks) ==
    IF Len(blocks) = 0 THEN 0
    ELSE (IF Head(blocks).opcode \in {"data_setvariableto", "data_changevariableby"}
          THEN 1 ELSE 0)
         + (IF HasInput(Head(blocks), "SUBSTACK")
            THEN StoreCount(InputOf(Head(blocks), "SUBSTACK").blocks) ELSE 0)
         + StoreCount(Tail(blocks))

\* the offsets of the SetVar and ChangeVar instructions
StoreOffsets(data) ==
    {at \in Decode(data, 0) :
       at < Len(data) /\ data[at + 1].op \in {"SetVar", "ChangeVar"}}

\* C24: the bytecode of a script compiled with warp has no Yield opcode; the
\* bytecode of the same script compiled without warp has, for every
\* data_setvariableto and data_changevariableby statement of the script, a
\* Yield right after the store of that statement, inside the loop body the
\* statement is in
C24_WarpHasNoYield ==
    build.phase = "compiled" =>
      LET warped == compile(build.ctx, ScriptCompiler_new(TRUE, 0), build.script).data
          plain == compile(build.ctx, ScriptCompiler_new(FALSE, 0), build.script).data
      IN /\ build.c.data = (IF build.script.warp THEN warped ELSE plain)
         /\ YieldCount(warped) = 0
         /\ Cardinality(StoreOffsets(plain)) = StoreCount(build.script.blocks)
         /\ \A at \in StoreOffsets(plain) : plain[at + 3] = Op("Yield")
         /\ YieldCount(plain) >= StoreCount(build.script.blocks)

\* the warp scenario: repeat { set g1 } compiled with warp, without a Yield,
\* while the script compiled without warp has one
C24_Witness ==
    /\ build.phase = "compiled"
    /\ build.script.warp
    /\ build.script.blocks =
         <<Repeat(VarBlock("g1"), <<SetVariableTo("g1", TextBlock("x"))>>)>>
    /\ YieldCount(build.c.data) = 0
    /\ YieldCount(compile(build.ctx, ScriptCompiler_new(FALSE, 0), build.script).data) = 1

(***************************************************************************)
(* Running compiled loops and warp procedures.                             *)
(***************************************************************************)
\* the statement of C25: a task inside the body of a procedure compiled with
\* warp stays in its time slice until the procedure returns; the procedure
\* run is the lowering of WarpScript
C25_WarpRunsInOneSlice ==
    [][(pc = "slice" /\ cur.procedure \in WarpProcs) => pc' = "slice"]_vars

\* the operand stack of the task when it entered procedure 8: empty for a
\* root task, the caller's number under the return frame for a call
EntryStack ==
    IF Len(cur.scopes) = 1 THEN <<>>
    ELSE <<Num(7), ReturnLocation(4), ProcedureV(9)>>

\* C26: procedure 8 is the lowering of repeat (g1) { change v0 by 1 }; with
\* g1 evaluating to n the body has run fewer than n times whenever it is
\* entered, and when the task is at the instruction after the loop the body
\* has run exactly n times (not at all for n = 0) and the operand stack is the
\* stack before the block
C26_RepeatRunsBodyTimes ==
    /\ ProcRepeat = Lowered("repeat", RepeatScript)
    /\ (pc = "slice" /\ cur.procedure = 8) =>
         LET n == cast_number(global_vars[2])
             runs == cast_number(targets[1][1])
         IN /\ cur.location \in {0, 19} => cur.stack = EntryStack
            /\ cur.location = 0 => targets[1][1] = DefaultValue
            /\ cur.location = 12 => runs < n
            /\ cur.location = 19 =>
                 /\ runs = n
                 /\ n = 0 => targets[1][1] = DefaultValue

\* the called loop has run its body three times and is at the instruction
\* after the loop
C26_Witness ==
    /\ pc = "slice"
    /\ cur.procedure = 8
    /\ cur.location = 19
    /\ Len(cur.scopes) = 2
    /\ global_vars[2] = Str(<<"3">>)
    /\ targets[1][1] = Num(3)

\* the statement of C27: a slice of a task that runs a control_forever
\* compiled without warp always ends, so that the other ready task gets its
\* slices
C27_ForeverKeepsSuspending ==
    (pc = "slice" /\ cur.procedure \in {10, 11}) ~> (pc # "slice")

(***************************************************************************)
(* Casts.                                                                  *)
(***************************************************************************)
\* the statement of C28: a Boolean cast to a String and that String cast to
\* a Boolean is the Boolean again
C28_BooleanRoundTrip ==
    build.phase = "cast" =>
      \A i \in 1..(Len(build.ops) - 1) :
         (/\ build.trail[i].tag = "Boolean"
          /\ build.ops[i] = "cast_string"
          /\ build.ops[i + 1] = "cast_boolean")
           => build.trail[i + 2] = build.trail[i]

(***************************************************************************)
(* Runtime errors.                                                         *)
(***************************************************************************)
\* the statement of C29: when the running task has hit a runtime error, the
\* scheduler can still give a slice to the tasks that wait in the ready queue
\* or on the sleeper heap
C29_ErrorAbortsOnlyTask ==
    (pc = "panic" /\ cur.id # 0 /\ (Len(task_queue) > 0 \/ Len(sleepers) > 0))
      => ENABLED (PickTask \/ FrameStart)

(***************************************************************************)
(* Procedure ids.                                                          *)
(***************************************************************************)
\* the procedure at index i of the pool has id i
PoolIdsAreIndices ==
    \A k \in 1..Len(build.pool) :
       build.pool[k].ident = k - 1 /\ build.ident[build.pool[k].inst] = k - 1

\* C30: after every register call the procedure at index i of the pool has
\* id i; an id that has been assigned does not change; and a call with an
\* instance that has an id fails, leaving the pool and every id as they were
C30_IdsAssignedOnce ==
    [][/\ PoolIdsAreIndices'
       /\ \A inst \in 1..MaxInstances :
            build.ident[inst] # -1 =>
              /\ build'.ident[inst] = build.ident[inst]
              /\ build'.last = inst =>
                   /\ build'.phase = "panic"
                   /\ build'.pool = build.pool
                   /\ build'.ident = build.ident
       /\ \A inst \in 1..MaxInstances :
            (build.ident[inst] = -1 /\ build'.last = inst) =>
               /\ build'.ident[inst] = Len(build.pool)
               /\ Len(build'.pool) = Len(build.pool) + 1]_vars

\* three instances were registered, the second created first, and the call
\* with the second again has failed
C30_Witness ==
    /\ build.phase = "panic"
    /\ Len(build.pool) = 3
    /\ build.pool[1].inst = 2
    /\ build.last = build.pool[2].inst
    /\ PoolIdsAreIndices

(***************************************************************************)
(* Conservation of tasks by the frame loop.                                *)
(***************************************************************************)
\* the task has executed Return from its root frame
Completed(id) == \E i \in SlicesOf(id) : log[i].end = "Return"

\* the number of places of the ready queue and the sleeper heap that hold
\* the task
Holdings(id) ==
    Cardinality({i \in 1..Len(task_queue) : task_queue[i].id = id})
        + Cardinality({i \in 1..Len(sleepers) : sleepers[i].id = id})

\* C31: when run_frame has returned the ready queue is empty and every task
\* created so far is either complete and held nowhere, or held exactly once,
\* in the sleeper heap; between frames no task is held twice, and
\* has_incomplete_tasks is false exactly when no created task is incomplete
C31_TasksConserved ==
    /\ ev.kind = "FrameEnd" =>
          /\ Len(task_queue) = 0
          /\ \A id \in TaskIds :
                IF Completed(id) THEN Holdings(id) = 0
                ELSE Cardinality({i \in 1..Len(sleepers) : sleepers[i].id = id}) = 1
          /\ Len(sleepers) = Cardinality({id \in TaskIds : ~Completed(id)})
    /\ pc = "idle" =>
          /\ \A id \in TaskIds : Holdings(id) = IF Completed(id) THEN 0 ELSE 1
          /\ has_incomplete_tasks <=> \E id \in TaskIds : ~Completed(id)

\* a frame has returned after one task completed and a running task
\* dispatched another, with a task left sleeping
C31_Witness ==
    /\ ev.kind = "FrameEnd"
    /\ \E id \in TaskIds : Completed(id)
    /\ \E id \in TaskIds : born[id].parent # 0
    /\ Len(sleepers) >= 1

(***************************************************************************)
(* Variables between two suspension points.                                *)
(***************************************************************************)
\* every task the dispatch created has completed and the frame has returned
AllCounted == pc = "idle" /\ ndispatch = 1 /\ \A id \in TaskIds : Completed(id)

\* C32: the variables change only in a step of the running task, and within a
\* slice the running task stays the same; a ChangeVar by 1 leaves the variable
\* one above the number it held before the step, whatever ran earlier; and
\* when the k tasks that each change v0 by 1 n times have completed, v0 is the
\* number it started with plus k * n
C32_ChangeVarNeverInterleaved ==
    [][/\ (global_vars' # global_vars \/ targets' # targets) =>
             /\ OpcodeStep
             /\ CurOp = "ChangeVar"
             /\ global_vars' = global_vars
             /\ targets'[1][1] = Num(cast_number(targets[1][1]) + 1)
       /\ (OpcodeStep /\ pc' = "slice") => cur'.id = cur.id
       /\ (OpcodeStep /\ CurOp = "ChangeVar") =>
             targets'[1][1] = Num(cast_number(targets[1][1]) + 1)
       /\ AllCounted' =>
             cast_number(targets'[1][1]) =
                cast_number(global_vars'[1])
                   + Len(born') * cast_number(global_vars'[2])]_vars

\* three tasks have each changed v0, which started as the text 2, three times
C32_Witness ==
    /\ AllCounted
    /\ Len(born) = 3
    /\ global_vars = <<Str(<<"2">>), Str(<<"3">>)>>
    /\ targets[1][1] = Num(11)

(***************************************************************************)
(* The operand stack across a lowered statement.                           *)
(***************************************************************************)
\* the operand stack of the task when it entered the procedure it is in:
\* empty in the root frame, else the caller's stack without the parameters,
\* under the frame marker
FrameBase(task) ==
    IF Len(task.calls) = 0 THEN <<>>
    ELSE LET call == Last(task.calls)
         IN SubSeq(call.stack, 1,
                   Len(call.stack) - Proc(task.procedure).param_count)
              \o <<ReturnLocation(call.at + 2), ProcedureV(call.procedure)>>

\* the offsets of the compiled procedures at which a lowered statement
\* begins or has just ended (the Return included):
\*   8: the repeat at 0..19, its change-variable at 12..17
\*  10: the forever at 0, its empty substack ending at 1
\*  11: the forever at 0, its repeat at 0..19, the set-variable at 12..17
\*  12: the set-variable at 0..4, the say at 4..8, the wait at 8..11
StatementBounds(proc) ==
    CASE proc = 8 -> {0, 12, 17, 19}
      [] proc = 10 -> {0, 1}
      [] proc = 11 -> {0, 12, 17, 19}
      [] proc = 12 -> {0, 4, 8, 11}
      [] OTHER -> {}

\* the task is between two statements of a compiled procedure
AtStatementBound(task) == task.location \in StatementBounds(task.procedure)

\* C33: procedures 8, 10, 11 and 12 are the lowerings of scripts that use
\* every statement of the seed library; whenever a task is between two of
\* their statements, running, queued or sleeping, its operand stack is the
\* stack it entered the procedure with, so that each Return of a compiled
\* script finds the stack empty or the frame marker on top
C33_StatementsStackNeutral ==
    /\ ProcRepeat = Lowered("repeat", RepeatScript)
    /\ ProcForever = Lowered("forever", ForeverScript)
    /\ ProcForeverRepeat = Lowered("forever repeat", ForeverRepeatScript)
    /\ ProcWarp = Lowered("warp", WarpScript)
    /\ (pc = "slice" /\ AtStatementBound(cur)) => cur.stack = FrameBase(cur)
    /\ \A i \in 1..Len(sleepers) :
          AtStatementBound(sleepers[i]) => sleepers[i].stack = FrameBase(sleepers[i])
    /\ \A i \in 1..Len(task_queue) :
          AtStatementBound(task_queue[i]) =>
             task_queue[i].stack = FrameBase(task_queue[i])
    /\ (pc = "slice" /\ cur.procedure \in {8, 10, 11, 12}
          /\ cur.location < Len(Code(cur)) /\ CurOp = "Return") =>
             IF Len(cur.calls) = 0 THEN cur.stack = <<>>
             ELSE /\ Len(cur.stack) >= 2
                  /\ cur.stack[Len(cur.stack)].tag = "Procedure"
                  /\ cur.stack[Len(cur.stack) - 1].tag = "ReturnLocation"

\* the called warp procedure has run its set-variable, say and wait and is at
\* its Return with the frame marker on top
C33_Witness ==
    /\ pc = "slice"
    /\ cur.procedure = 12
    /\ cur.location = 11
    /\ cur.stack = <<ReturnLocation(2), ProcedureV(13)>>
    /\ targets[1][1] = Str(<<"h", "i">>)

(***************************************************************************)
(* ScriptCompiler's locals on their own: a compiler created for a          *)
(* procedure of up to MaxParams parameters, whose lowerings claim locals   *)
(* and release the locals they claimed, in any order.  live lists the      *)
(* handles claimed and not yet released, freed the handles released and    *)
(* not claimed since, last the handle of the latest call.                  *)
(***************************************************************************)
InitLocals ==
    /\ \E num_proc_params \in 0..MaxParams :
         build = [phase |-> "locals",
                  num_proc_params |-> num_proc_params,
                  c |-> ScriptCompiler_new(FALSE, num_proc_params),
                  live |-> <<>>,
                  freed |-> {},
                  last |-> 0]
    /\ NoProgram

\* a lowering calls claim_local
ClaimLocal ==
    /\ build.phase = "locals"
    /\ claimed(build.c) < MaxLocals
    /\ build' = [build EXCEPT
                   !.c = claim_local(@),
                   !.live = Append(@, claimed(build.c)),
                   !.freed = @ \ {claimed(build.c)},
                   !.last = claimed(build.c)]
    /\ CompileStep("claim_local")
    /\ UNCHANGED <<triggers, added, global_vars, targets>>

\* a lowering calls release_local with a handle it claimed
ReleaseLocal(i) ==
    /\ build.phase = "locals"
    /\ i \in 1..Len(build.live)
    /\ build' = [build EXCEPT
                   !.c = release_local(@, build.live[i]),
                   !.live = SubSeq(@, 1, i - 1) \o SubSeq(@, i + 1, Len(@)),
                   !.freed = @ \cup {build.live[i]},
                   !.last = build.live[i]]
    /\ CompileStep("release_local")
    /\ UNCHANGED <<triggers, added, global_vars, targets>>

NextLocals == ClaimLocal \/ \E i \in 1..MaxLocals : ReleaseLocal(i)

SpecLocals == InitLocals /\ [][NextLocals]_vars

\* two nested counted loops and a third after them, in a procedure of one
\* parameter
NestedRepeats ==
    ScriptOn("ProcedureCalled", FALSE,
             <<Repeat(VarBlock("g1"), <<Repeat(VarBlock("g1"), <<>>)>>),
               Repeat(VarBlock("g1"), <<>>)>>)

\* the locals the SetLocal instructions of a bytecode name, in order
SetLocals(data) ==
    LET at == {i \in 1..(Len(data) - 1) : data[i] = Op("SetLocal")}
        RECURSIVE Listed(_)
        Listed(from) ==
            IF \E i \in at : i >= from
            THEN LET i == CHOOSE i \in at : i >= from /\ \A k \in at : k >= from => i <= k
                 IN <<data[i + 1].imm>> \o Listed(i + 1)
            ELSE <<>>
    IN Listed(1)

\* C34: claim_local returns the lowest slot that was released and not
\* claimed since, else the new slot it appends; the slot is no parameter and
\* none of the live claims, so the live claims are distinct; the counters of
\* two nested control_repeat loops differ and a later loop takes the lowest
\* of them again
C34_ClaimsAreDistinct ==
    [][ev'.kind = "claim_local" =>
          LET h == build'.last
              c == build.c
          IN /\ h = IF build.freed # {}
                    THEN CHOOSE i \in build.freed : \A k \in build.freed : i <= k
                    ELSE Len(c.locals)
             /\ build.freed = {} => Len(build'.c.locals) = Len(c.locals) + 1
             /\ build.freed # {} => Len(build'.c.locals) = Len(c.locals)
             /\ h >= build.num_proc_params
             /\ \A i \in 1..Len(build.live) : build.live[i] # h
             /\ \A i, j \in 1..Len(build'.live) :
                   i # j => build'.live[i] # build'.live[j]
             /\ SetLocals(compile(LowerContext, ScriptCompiler_new(FALSE, 1),
                                  NestedRepeats).data) = <<1, 2, 1>>]_vars

\* in a procedure of two parameters, locals 2, 3 and 4 were claimed, 3 and 2
\* released, and the next claim returned 2 while 4 was live
C34_Witness ==
    /\ build.phase = "locals"
    /\ build.num_proc_params = 2
    /\ ev.kind = "claim_local"
    /\ build.last = 2
    /\ build.live = <<4, 2>>
    /\ build.freed = {3}

(***************************************************************************)
(* Placeholder labels.                                                     *)
(***************************************************************************)
\* the offsets of the jump instructions of a bytecode
Jumps(data) ==
    {at \in Decode(data, 0) :
       at < Len(data) /\ data[at + 1].op \in {"Jump", "JumpIfTrue", "JumpIfFalse"}}

\* the compiler after a conditional jump to a placeholder label and the
\* decrement that follows it in control_repeat
WithPlaceholder(c) ==
    write(c, <<Op("JumpIfFalse"), Imm(Unpatched), Op("DecLocal"), Imm(0)>>)

RuntimeOnlyWords(block) ==
    CASE block = Say(TextBlock("y")) ->
           <<Op("PushConstant"), Imm(1), Op("CallBuiltin"), Imm(0)>>
      [] block \in {Say(Join(TextBlock("x"), VarBlock("g1"), TRUE)),
                    Say(Join(TextBlock("x"), VarBlock("g1"), FALSE))} ->
           <<Op("PushConstant"), Imm(0), Op("PushVar"), Imm(0),
             Op("CallBuiltin"), Imm(6), Op("CallBuiltin"), Imm(0)>>
      [] HasInput(block, "VALUE") ->
           <<Op("PushVar"), Imm(0), Op("PushConstant"), Imm(0),
             Op("CallBuiltin"), Imm(0)>>
      [] OTHER -> <<>>

\* C36: the lowering of a block whose library entry has a runtime callback
\* only writes the pushes of its inputs, in inputs_order when the entry has
\* one and else in the order of the input names, then CallBuiltin with the
\* id of the entry, and nothing else; a block with a field makes the lowering
\* panic, after which the compilation takes no further step
C36_RuntimeOnlyLowering ==
    [][/\ (ev'.kind = "compile_block" /\ Head(build.rest).opcode = "looks_say") =>
             IF Head(build.rest).field # ""
             THEN /\ build'.phase = "panic"
                  /\ build'.c.data = build.c.data
             ELSE /\ build'.phase = "lower"
                  /\ Written(build.c, build'.c) = RuntimeOnlyWords(Head(build.rest))
                  /\ SubSeq(build'.c.data, 1, Len(build.c.data)) = build.c.data
       /\ build.phase = "panic" => build'.phase = "panic"]_vars

\* the block whose inputs VALUE and MESSAGE the map enumerates in that order
\* was lowered after a statement: MESSAGE was pushed first
C36_Witness ==
    /\ build.phase = "lower"
    /\ ev.kind = "compile_block"
    /\ Len(build.script.blocks) = 2
    /\ Len(build.rest) = 0
    /\ HasInput(build.script.blocks[2], "VALUE")
    /\ build.script.blocks[2].opcode = "looks_say"
    /\ SubSeq(build.c.data, Len(build.c.data) - 5, Len(build.c.data)) =
         <<Op("PushVar"), Imm(0), Op("PushConstant"), Imm(0),
           Op("CallBuiltin"), Imm(0)>>

(***************************************************************************)
(* BlockLibrary on its own: up to MaxRegistrations calls of register_block *)
(* and register_reporter, then split.  blocks is the IndexMap in index     *)
(* order; a compile_logic or runtime_logic is the number of the call that  *)
(* gave it, 0 for None; calls lists the calls and the ids they returned.   *)
(***************************************************************************)
LibraryOpcodes == {"looks_say", "control_wait", "operator_join"}

\* the index of the entry of opcode, 0-based; Len(blocks) if it has none
library_index_of(blocks, opcode) ==
    IF \E i \in 1..Len(blocks) : blocks[i].opcode = opcode
    THEN (CHOOSE i \in 1..Len(blocks) : blocks[i].opcode = opcode) - 1
    ELSE Len(blocks)

\* IndexMap::insert_full: the entry of a key that is present is replaced
\* where it is, a new key is appended
insert_full(blocks, storage) ==
    IF library_index_of(blocks, storage.opcode) < Len(blocks)
    THEN [blocks EXCEPT ![library_index_of(blocks, storage.opcode) + 1] = storage]
    ELSE Append(blocks, storage)

\* the runtime library made of the entries that have a callback
runtime_library_SkipsMissing(blocks) ==
    LET filled == SelectSeq(blocks, LAMBDA storage : storage.runtime_logic # 0)
    IN [i \in 1..Len(filled) |-> filled[i].runtime_logic]

\* the two halves of BlockLibrary::split
type_library(blocks) ==
    [i \in 1..Len(blocks) |->
       [opcode |-> blocks[i].opcode, compile_logic |-> blocks[i].compile_logic,
        id |-> i - 1, is_reporter |-> blocks[i].is_reporter]]

runtime_library(blocks) == [i \in 1..Len(blocks) |-> blocks[i].runtime_logic]

NoBlockType == [opcode |-> "", compile_logic |-> 0, id |-> 0, is_reporter |-> FALSE]

\* IndexMap::get on the type library
library_get(type_lib, opcode) ==
    IF library_index_of(type_lib, opcode) < Len(type_lib)
    THEN type_lib[library_index_of(type_lib, opcode) + 1]
    ELSE NoBlockType

\* BlockTypeLibrary::reporter without its filter
library_reporter_Unfiltered(type_lib, opcode) == library_get(type_lib, opcode)

\* BlockTypeLibrary::block and BlockTypeLibrary::reporter; NoBlockType is None
library_block(type_lib, opcode) ==
    IF library_get(type_lib, opcode).is_reporter THEN NoBlockType
    ELSE library_get(type_lib, opcode)

library_reporter(type_lib, opcode) ==
    IF library_get(type_lib, opcode).is_reporter THEN library_get(type_lib, opcode)
    ELSE NoBlockType

InitLibrary ==
    /\ build = [phase |-> "library", blocks |-> <<>>, calls |-> <<>>,
                type_lib |-> <<>>, runtime_lib |-> <<>>]
    /\ NoProgram

\* register_impl, for register_block and register_reporter
RegisterImpl(opcode, compile_logic, runtime_logic, is_reporter) ==
    /\ build.phase = "library"
    /\ Len(build.calls) < MaxRegistrations
    /\ LET n == Len(build.calls) + 1
           storage == [opcode |-> opcode,
                       compile_logic |-> IF compile_logic THEN n ELSE 0,
                       runtime_logic |-> IF runtime_logic THEN n ELSE 0,
                       is_reporter |-> is_reporter]
       IN build' = [build EXCEPT
                      !.blocks = insert_full(@, storage),
                      !.calls = Append(@, [storage EXCEPT !.opcode = opcode]
                                            @@ [idx |-> library_index_of(build.blocks,
                                                                         opcode)])]
    /\ UNCHANGED <<triggers, added, global_vars, targets>>

RegisterBlock ==
    \E opcode \in LibraryOpcodes, compile_logic, runtime_logic \in BOOLEAN :
       /\ RegisterImpl(opcode, compile_logic, runtime_logic, FALSE)
       /\ CompileStep("register_block")

RegisterReporter ==
    \E opcode \in LibraryOpcodes, compile_logic, runtime_logic \in BOOLEAN :
       /\ RegisterImpl(opcode, compile_logic, runtime_logic, TRUE)
       /\ CompileStep("register_reporter")

\* BlockLibrary::split
Split ==
    /\ build.phase = "library"
    /\ build' = [build EXCEPT !.phase = "split",
                              !.type_lib = type_library(build.blocks),
                              !.runtime_lib = runtime_library(build.blocks)]
    /\ CompileStep("split")
    /\ UNCHANGED <<triggers, added, global_vars, targets>>

NextLibrary == RegisterBlock \/ RegisterReporter \/ Split

SpecLibrary == InitLibrary /\ [][NextLibrary]_vars

(***************************************************************************)
(* Builtin ids.                                                            *)
(***************************************************************************)
\* the calls that registered opcode, by their place in calls
CallsOf(opcode) == {i \in 1..Len(build.calls) : build.calls[i].opcode = opcode}

\* the last of them
LastCallOf(opcode) ==
    CHOOSE i \in CallsOf(opcode) : \A k \in CallsOf(opcode) : k <= i

\* the opcodes registered before the first registration of opcode
RegisteredBefore(opcode) ==
    {build.calls[k].opcode :
       k \in {k \in 1..Len(build.calls) : \A i \in CallsOf(opcode) : k < i}}

\* after split the id of the type library entry of every registered opcode is
\* the index in the runtime library of the callback the opcode was last
\* registered with
IdsNameCallbacks ==
    build.phase = "split" =>
      /\ Len(build.type_lib) = Len(build.runtime_lib)
      /\ \A opcode \in LibraryOpcodes :
            CallsOf(opcode) # {} =>
               LET entry == library_get(build.type_lib, opcode)
               IN /\ entry.opcode = opcode
                  /\ entry.id < Len(build.runtime_lib)
                  /\ build.runtime_lib[entry.id + 1] =
                       build.calls[LastCallOf(opcode)].runtime_logic
                  /\ entry.compile_logic =
                       build.calls[LastCallOf(opcode)].compile_logic

\* the statement of C37: the ids the registrations return increase with the
\* order of the calls, and after split the ids name the callbacks
C37_IdsIncreaseWithCalls ==
    /\ \A i, j \in 1..Len(build.calls) :
          i < j => build.calls[i].idx < build.calls[j].idx
    /\ IdsNameCallbacks

\* C37: a registration returns the number of distinct opcodes registered
\* before the first registration of its opcode, so the ids of distinct
\* opcodes increase with the order of their first registrations while the
\* registration of an opcode that is present returns the id the opcode has
\* already; after split the ids name the callbacks
C37_IdsFollowFirstRegistration ==
    /\ \A j \in 1..Len(build.calls) :
          build.calls[j].idx = Cardinality(RegisteredBefore(build.calls[j].opcode))
    /\ IdsNameCallbacks

\* three opcodes were registered, the first of them again in between, with
\* another callback; the library was split
C37_Witness ==
    /\ build.phase = "split"
    /\ Len(build.calls) = 3
    /\ build.calls[1].opcode = build.calls[3].opcode
    /\ build.calls[2].opcode # build.calls[1].opcode
    /\ build.calls[1].runtime_logic = 1
    /\ build.calls[3].runtime_logic = 3
    /\ build.runtime_lib[1] = 3

(***************************************************************************)
(* Statements and reporters.                                               *)
(***************************************************************************)
\* C38: after split no opcode has an entry both as a statement and as a
\* reporter: of BlockTypeLibrary::block and BlockTypeLibrary::reporter at
\* most one returns an entry, the one of the kind the opcode was last
\* registered as, and both return None for an opcode never registered
C38_StatementOrReporter ==
    build.phase = "split" =>
      \A opcode \in LibraryOpcodes :
         LET as_block == library_block(build.type_lib, opcode)
             as_reporter == library_reporter(build.type_lib, opcode)
         IN /\ as_block = NoBlockType \/ as_reporter = NoBlockType
            /\ CallsOf(opcode) = {} =>
                  as_block = NoBlockType /\ as_reporter = NoBlockType
            /\ CallsOf(opcode) # {} =>
                  IF build.calls[LastCallOf(opcode)].is_reporter
                  THEN as_block = NoBlockType /\ as_reporter.opcode = opcode
                  ELSE as_reporter = NoBlockType /\ as_block.opcode = opcode

\* an opcode was registered as a statement and then as a reporter: after
\* split it is a reporter only
C38_Witness ==
    /\ build.phase = "split"
    /\ Len(build.calls) >= 2
    /\ build.calls[1].opcode = build.calls[2].opcode
    /\ ~build.calls[1].is_reporter
    /\ build.calls[2].is_reporter
    /\ library_block(build.type_lib, build.calls[1].opcode) = NoBlockType
    /\ library_reporter(build.type_lib, build.calls[1].opcode).opcode =
         build.calls[1].opcode

(***************************************************************************)
(* CallBuiltin in its steps: the library is taken out of the Program, the  *)
(* callback runs with the task and the Program, the library is put back.   *)
(* Builtin 0 is a callback that pops its parameter, as looks_say does, and *)
(* then does one of four things through the Program; builtins is TRUE for *)
(* Some(library), ran tells that the body of the callback is over.         *)
(***************************************************************************)
CallbackKinds == {"say", "dispatch", "set_var", "call_builtin"}

InitBuiltins ==
    /\ \E callback \in CallbackKinds :
         build = [phase |-> "builtins", builtins |-> TRUE, callback |-> callback,
                  ran |-> FALSE]
    /\ \E handlers \in {<<12>>, <<12, 12>>} :
         triggers = [t \in Triggers |-> IF t = OnStart THEN handlers ELSE <<1>>]
    /\ added = triggers
    /\ global_vars = InitGlobals
    /\ targets = InitTargets
    /\ task_queue = <<>>
    /\ sleepers = <<>>
    /\ cur = NoTask
    /\ pc = "idle"
    /\ now = 0
    /\ frame_start = 0
    /\ next_priority = 0
    /\ born = <<>>
    /\ ndispatch = 0
    /\ frame = 0
    /\ log = <<>>
    /\ ev = [kind |-> "Init", trigger |-> OnStart]

\* what a step of a callback leaves alone
CallbackStep(kind) ==
    /\ ev' = [kind |-> kind, trigger |-> OnStart]
    /\ UNCHANGED <<triggers, added, sleepers, now, frameVars, frame, log>>

\* Option::take and expect on Program::builtins, then BlockRuntimeLibrary::get
TakeLibrary ==
    IF build.builtins
    THEN /\ build' = [build EXCEPT !.builtins = FALSE, !.ran = FALSE]
         /\ pc' = "callback"
    ELSE /\ build' = build
         /\ pc' = "panic"

\* CallBuiltin up to the call of the callback
OpCallBuiltinTake ==
    /\ build.phase = "builtins"
    /\ Executes("CallBuiltin")
    /\ TakeLibrary
    /\ cur' = Advance(cur, 2)
    /\ CallbackStep("take")
    /\ UNCHANGED <<global_vars, targets, task_queue, born, ndispatch>>

\* the callback pops its parameter and returns
CallbackSays ==
    /\ pc = "callback" /\ ~build.ran /\ build.callback = "say"
    /\ cur' = [cur EXCEPT !.stack = Popped(cur, 1)]
    /\ build' = [build EXCEPT !.ran = TRUE]
    /\ pc' = pc
    /\ CallbackStep("callback")
    /\ UNCHANGED <<global_vars, targets, task_queue, born, ndispatch>>

\* the callback pops its parameter and calls Program::dispatch
CallbackDispatches ==
    /\ pc = "callback" /\ ~build.ran /\ build.callback = "dispatch"
    /\ Len(born) + Len(triggers[Event(0)]) <= MaxBuiltinTasks
    /\ cur' = [cur EXCEPT !.stack = Popped(cur, 1)]
    /\ task_queue' = dispatch(task_queue, triggers[Event(0)], Len(born) + 1, now)
    /\ born' = born \o [i \in 1..Len(triggers[Event(0)]) |->
                          [trigger |-> Event(0), batch |-> ndispatch + 1,
                           parent |-> cur.id, at |-> Len(log)]]
    /\ ndispatch' = ndispatch + 1
    /\ build' = [build EXCEPT !.ran = TRUE]
    /\ pc' = pc
    /\ CallbackStep("callback")
    /\ UNCHANGED <<global_vars, targets>>

\* the callback pops its parameter and stores it in global 0 with set_var
CallbackSetsVar ==
    /\ pc = "callback" /\ ~build.ran /\ build.callback = "set_var"
    /\ cur' = [cur EXCEPT !.stack = Popped(cur, 1)]
    /\ global_vars' = set_var(global_vars, targets, 0, 0, Top(cur)).g
    /\ targets' = set_var(global_vars, targets, 0, 0, Top(cur)).tg
    /\ build' = [build EXCEPT !.ran = TRUE]
    /\ pc' = pc
    /\ CallbackStep("callback")
    /\ UNCHANGED <<task_queue, born, ndispatch>>

\* the callback goes for the library as CallBuiltin does
CallbackCallsBuiltin ==
    /\ pc = "callback" /\ ~build.ran /\ build.callback = "call_builtin"
    /\ TakeLibrary
    /\ CallbackStep("call_builtin")
    /\ UNCHANGED <<global_vars, targets, task_queue, cur, born, ndispatch>>

\* CallBuiltin that does not put the library back
OpCallBuiltinLeave_KeepsLibrary ==
    /\ pc = "callback" /\ build.ran
    /\ build' = [build EXCEPT !.ran = FALSE]
    /\ sleepers' = AfterSlice(sleepers, cur)
    /\ cur' = NoTask
    /\ pc' = "frame"
    /\ log' = Closed("CallBuiltin", 0, now, Len(cur.scopes))
    /\ ev' = [kind |-> "Op", trigger |-> OnStart]
    /\ UNCHANGED <<triggers, added, global_vars, targets, task_queue, now, frameVars,
                   born, ndispatch, frame>>

\* the callback has returned: the library is put back and run_opcode returns
\* true
OpCallBuiltinLeave ==
    /\ pc = "callback" /\ build.ran
    /\ build' = [build EXCEPT !.builtins = TRUE, !.ran = FALSE]
    /\ sleepers' = AfterSlice(sleepers, cur)
    /\ cur' = NoTask
    /\ pc' = "frame"
    /\ log' = Closed("CallBuiltin", 0, now, Len(cur.scopes))
    /\ ev' = [kind |-> "Op", trigger |-> OnStart]
    /\ UNCHANGED <<triggers, added, global_vars, targets, task_queue, now, frameVars,
                   born, ndispatch, frame>>

NextBuiltins ==
    \/ ndispatch = 0 /\ Dispatch(OnStart)
    \/ FrameStart
    \/ PickTask
    \/ BeginSlice
    \/ OpPushConstant
    \/ OpPushVar
    \/ OpSetVar
    \/ OpCallBuiltinTake
    \/ CallbackSays
    \/ CallbackDispatches
    \/ CallbackSetsVar
    \/ CallbackCallsBuiltin
    \/ OpCallBuiltinLeave
    \/ OpSleep
    \/ OpYield
    \/ OpReturnRoot
    \/ FrameEnd

SpecBuiltins == InitBuiltins /\ [][NextBuiltins]_vars

(***************************************************************************)
(* The runtime library during CallBuiltin.                                 *)
(***************************************************************************)
\* C39: short of a panic the library is absent from the Program exactly
\* while a callback runs, so every CallBuiltin of every task finds it; a
\* callback that dispatches or sets a variable does so and returns, and a
\* callback that goes for the library finds it absent and panics, without a
\* second callback being entered
C39_LibraryHeldExclusively ==
    [][/\ pc' # "panic" => (pc' = "callback" <=> ~build'.builtins)
       /\ (pc = "slice" /\ cur.location < Len(Code(cur)) /\ CurOp = "CallBuiltin") =>
             build.builtins
       /\ ev'.kind = "take" => pc' = "callback" /\ ~build'.builtins
       /\ (ev'.kind = "callback" /\ build.callback = "dispatch") =>
             /\ pc' = "callback"
             /\ Len(task_queue') = Len(task_queue) + Len(triggers[Event(0)])
       /\ (ev'.kind = "callback" /\ build.callback = "set_var") =>
             /\ pc' = "callback"
             /\ global_vars'[1] = Top(cur)
       /\ ev'.kind = "call_builtin" =>
             /\ pc' = "panic"
             /\ build' = build
             /\ cur' = cur]_vars

\* the second task of the program is running its callback, after the first
\* task's callback dispatched an event and the library was put back
C39_Witness ==
    /\ pc = "callback"
    /\ ~build.builtins
    /\ build.callback = "dispatch"
    /\ cur.id = 2
    /\ \E id \in TaskIds : born[id].parent = 1
    /\ \E i \in 1..Len(log) : log[i].id = 1 /\ log[i].end = "CallBuiltin"

(***************************************************************************)
(* Primitive blocks on their own: a block made by one of the constructors  *)
(* of ast.rs that ingest uses (or by hand, with Block::new and             *)
(* with_field), try_as_primitive on it, and the push of the primitive.     *)
(* Block::fields is the sequence of its entries; the id of a Field is the  *)
(* empty sequence for None, else the sequence of the one id.               *)
(***************************************************************************)
TEXT_FIELD == "TEXT"
NUM_FIELD == "TEXT"
VAR_FIELD == "VARIABLE"

Field_simple(value) == [value |-> value, id |-> <<>>]
Field_identified(id, value) == [value |-> value, id |-> <<id>>]

\* Block::new(opcode).with_field(name, field)
with_field(opcode, name, field) ==
    [opcode |-> opcode, fields |-> <<[name |-> name, field |-> field]>>]

new_number(opcode, num) == with_field(opcode, "NUM", Field_simple(num))

Block_text(text) == with_field("text", "TEXT", Field_simple(text))
Block_number(num) == new_number("math_number", num)
Block_integer(num) == new_number("math_integer", num)
Block_whole_number(num) == new_number("math_whole_number", num)
Block_pos_number(num) == new_number("math_positive_number", num)
Block_angle(num) == new_number("math_angle", num)
Block_var(id, name) == with_field("data_variable", "VARIABLE", Field_identified(id, name))

Constructors ==
    {"text", "number", "integer", "whole_number", "pos_number", "angle", "var"}

Construct(ctor, value) ==
    CASE ctor = "text" -> Block_text(value)
      [] ctor = "number" -> Block_number(value)
      [] ctor = "integer" -> Block_integer(value)
      [] ctor = "whole_number" -> Block_whole_number(value)
      [] ctor = "pos_number" -> Block_pos_number(value)
      [] ctor = "angle" -> Block_angle(value)
      [] ctor = "var" -> Block_var(value, <<"n">>)
      [] ctor = "by hand" -> with_field("math_number", "TEXT", Field_simple(value))
      [] OTHER -> with_field("operator_join", "NUM", Field_simple(value))

\* the strings the blocks are made with: numbers, and texts that are none
PrimitiveValues ==
    {<<>>, <<"0">>, <<"1">>, <<"2">>, <<"3">>, <<"1", "0">>, <<"x">>, <<"1", "x">>}

\* the pools of the target the block is lowered for: every text of the
\* project is in the pool of texts, two variables exist
PrimitiveTexts == <<<<>>, <<"0">>, <<"1">>, <<"2">>, <<"3">>, <<"1", "0">>, <<"x">>,
                    <<"1", "x">>>>
PrimitiveVars == <<<<"1">>, <<"x">>>>

\* HashMap::get on Block::fields: the entries of that name, at most one
FieldsNamed(blk, name) == SelectSeq(blk.fields, LAMBDA e : e.name = name)

Panicked(message) == [kind |-> "panic", v |-> <<>>, message |-> message]
Primitive(kind, v) == [kind |-> kind, v |-> v, message |-> ""]

\* Block::simple_field
simple_field(blk, name) ==
    IF Len(FieldsNamed(blk, name)) = 1 /\ Len(FieldsNamed(blk, name)[1].field.id) = 0
    THEN Primitive("Text", FieldsNamed(blk, name)[1].field.value)
    ELSE Panicked("must have a simple field")

\* Block::parsed_field: str::parse accepts the decimal digits of the values
parsed_field(blk, name, kind) ==
    IF Len(FieldsNamed(blk, name)) = 1 /\ Len(FieldsNamed(blk, name)[1].field.id) = 0
    THEN IF AllDigits(FieldsNamed(blk, name)[1].field.value)
         THEN Primitive(kind, StrToNat(FieldsNamed(blk, name)[1].field.value))
         ELSE Panicked("was not a valid number")
    ELSE Panicked("must have a simple field")

\* Block::identified_field
identified_field(blk, name) ==
    IF Len(FieldsNamed(blk, name)) = 1 /\ Len(FieldsNamed(blk, name)[1].field.id) = 1
    THEN Primitive("Variable", FieldsNamed(blk, name)[1].field.id[1])
    ELSE Panicked("must have an identified field")

\* Block::try_as_primitive; kind None is Option::None
try_as_primitive(blk) ==
    CASE blk.opcode = "text" -> simple_field(blk, TEXT_FIELD)
      [] blk.opcode = "math_number" -> parsed_field(blk, NUM_FIELD, "Number")
      [] blk.opcode = "math_integer" -> parsed_field(blk, NUM_FIELD, "Integer")
      [] blk.opcode = "math_whole_number" -> parsed_field(blk, NUM_FIELD, "WholeNumber")
      [] blk.opcode = "math_positive_number" ->
           parsed_field(blk, NUM_FIELD, "PositiveNumber")
      [] blk.opcode = "math_angle" -> parsed_field(blk, NUM_FIELD, "Angle")
      [] blk.opcode = "data_variable" -> identified_field(blk, VAR_FIELD)
      [] OTHER -> Primitive("None", <<>>)

\* the exponent of the double n >= 1: the position of its leading bit
RECURSIVE Log2(_)
Log2(n) == IF n < 2 THEN 0 ELSE 1 + Log2(n \div 2)

\* the high word of to_bits of the double n, an integer from 1 to 2^20; the
\* low word is 0
F64Hi(n) == (1023 + Log2(n)) * Pow2(20) + ((n * Pow2(20)) \div Pow2(Log2(n)) - Pow2(20))

\* StackRepresentable for Primitive, f64, ConstantHandle and VarHandle: the
\* words written, or the panic
push_primitive(primitive) ==
    CASE primitive.kind = "Text" ->
           IF get_index_of(PrimitiveTexts, primitive.v) < 0
           THEN [words |-> <<>>, panic |-> "Text missing from context pool"]
           ELSE [words |-> <<Op("PushConstant"),
                             Imm(get_index_of(PrimitiveTexts, primitive.v))>>,
                 panic |-> ""]
      [] primitive.kind = "Variable" ->
           IF get_index_of(PrimitiveVars, primitive.v) < 0
           THEN [words |-> <<>>, panic |-> "unknown variable"]
           ELSE [words |-> <<Op("PushVar"),
                             Imm(get_index_of(PrimitiveVars, primitive.v))>>,
                 panic |-> ""]
      [] OTHER ->
           IF primitive.v = 0 THEN [words |-> <<Op("PushZero")>>, panic |-> ""]
           ELSE [words |-> <<Op("PushNumber"), Imm(0), Imm(F64Hi(primitive.v))>>,
                 panic |-> ""]

InitPrimitives ==
    /\ \E ctor \in Constructors \cup {"by hand", "reporter"}, value \in PrimitiveValues :
         build = [phase |-> "block", ctor |-> ctor, value |-> value,
                  block |-> Construct(ctor, value),
                  primitive |-> Primitive("None", <<>>),
                  words |-> <<>>, panic |-> ""]
    /\ NoProgram

\* build_push_to_stack of the Input that holds the block, up to the primitive
TryAsPrimitive ==
    /\ build.phase = "block"
    /\ LET primitive == try_as_primitive(build.block)
       IN build' = [build EXCEPT
                      !.phase = CASE primitive.kind = "panic" -> "panic"
                                  [] primitive.kind = "None" -> "library"
                                  [] OTHER -> "primitive",
                      !.primitive = primitive,
                      !.panic = primitive.message]
    /\ CompileStep("try_as_primitive")
    /\ UNCHANGED <<triggers, added, global_vars, targets>>

\* compiler.build_push(primitive)
PushPrimitive ==
    /\ build.phase = "primitive"
    /\ LET r == push_primitive(build.primitive)
       IN build' = [build EXCEPT
                      !.phase = IF r.panic # "" THEN "panic" ELSE "pushed",
                      !.words = r.words,
                      !.panic = r.panic]
    /\ CompileStep("build_push")
    /\ UNCHANGED <<triggers, added, global_vars, targets>>

NextPrimitives == TryAsPrimitive \/ PushPrimitive

SpecPrimitives == InitPrimitives /\ [][NextPrimitives]_vars

(***************************************************************************)
(* Primitives as inputs.                                                   *)
(***************************************************************************)
\* the value makes sense for the constructor: a number for the number
\* constructors, the id of a variable of the target for Block::var
FitsConstructor ==
    CASE build.ctor = "text" -> TRUE
      [] build.ctor = "var" -> get_index_of(PrimitiveVars, build.value) >= 0
      [] OTHER -> AllDigits(build.value)

\* the statement of C40: a block made by one of the constructors is
\* recognised by try_as_primitive and is lowered to one direct push, without
\* the block library being consulted
C40_PrimitivesPushDirectly ==
    (build.ctor \in Constructors /\ FitsConstructor) =>
      /\ build.phase \in {"block", "primitive", "pushed"}
      /\ build.phase = "pushed" =>
            /\ Len(build.words) \in {1, 2, 3}
            /\ build.words[1].op \in {"PushConstant", "PushZero", "PushNumber", "PushVar"}
            /\ \A i \in 2..Len(build.words) : build.words[i].op = "imm"

=============================================================================
